---- MODULE Spec2Model ----
(***************************************************************************)
(* Wallet-ownership claim and agent-lifecycle engine of klik-api.          *)
(*                                                                         *)
(* The document store (Agent, User, wallet_opt_outs) and the expiring      *)
(* cache (claim nonces, opt-out nonces) are the state.  Every route        *)
(* handler is a sequence of steps, one per awaited store or cache call, so *)
(* that concurrent requests interleave exactly where the event loop lets   *)
(* them.  Synchronous code between two awaits belongs to the step of the   *)
(* await that precedes it.                                                 *)
(*                                                                         *)
(* The clock is seen through what it decides: an agent's claim deadline is *)
(* reached at some moment after its creation, and a cache key set with EX  *)
(* is dropped at some moment after it was set.                             *)
(***************************************************************************)
EXTENDS Integers, Sequences, FiniteSets, TLC

\* ------------------------------------------------------------------ bounds
NumWallets == 2
MaxAgents == 2
NumUsers == 2
MaxCalls == 2
MaxNonce == 2
QuotaCalls == 3    \* concurrent adopt calls of the quota race
QuotaAgents == 3   \* subjects of the quota race
MaxDay == 29       \* days the clock of the notification runs advances
AbuseCalls == 1       \* requests in flight at the abuse detector and its routes
MaxRankNonce == 3     \* nonces handed out in the sequential claims and opt-outs
IpLimit == 3          \* the hourly request cap per IP of the abuse detector,
                      \* scaled down from the source's 100
RaceDays == 3         \* days the clock of the overlapping notification runs advances
LastCreationDay == 1  \* last day of the clock on which a subject is created
NotifyAgents == 1   \* subjects of the notification runs
NotifyCalls == 1    \* notification runs in flight
IdLen == 2          \* digits of an agent id in a text to be signed (24 in the source)
MaxWalletLen == 2   \* most characters of a wallet address in a text (44)
NonceLen == 1       \* digits of a nonce in a text (64)
MaxCount == 120     \* largest memo count whose cost is estimated
MaxSends == 2      \* the per-run ceiling MAX_SENDS_PER_HOUR of the notification
                   \* scheduler, scaled down from the source's 500

\* ------------------------------------------------------- program constants
NONCE_TTL_SECONDS == 300
FOUNDING_LIMIT == 5000
MS_PER_DAY == 86400000   \* 1000 * 60 * 60 * 24
WALLET_FAIL_LIMIT == 5   \* failed attempts after which a wallet is blocked
ESTIMATED_LAMPORTS_PER_TX == 10000
LAMPORTS_PER_SOL == 1000000000   \* 1e9
USD_PER_SOL == 150

Wallets == 1..NumWallets
AgentIds == 1..MaxAgents
ExtUsers == 1..NumUsers
UserIds == 1..(NumUsers + MaxAgents)
CallIds == 1..MaxCalls
Nonces == 1..MaxNonce

Min(a, b) == IF a < b THEN a ELSE b
Max(a, b) == IF a < b THEN b ELSE a

\* ------------------------------------------------------------- documents
NoAgent ==
  [exists |-> FALSE, sourceWallet |-> 0, claimStatus |-> "NONE",
   claimedBy |-> 0, claimNonce |-> 0, userId |-> 0, adoptedBy |-> 0,
   foundingRank |-> 0, createdAt |-> 0, claimedAt |-> FALSE, orphanedAt |-> FALSE]

NewWalletAgent(w) ==
  [exists |-> TRUE, sourceWallet |-> w, claimStatus |-> "UNCLAIMED",
   claimedBy |-> 0, claimNonce |-> 0, userId |-> 0, adoptedBy |-> 0,
   foundingRank |-> 0, createdAt |-> 0, claimedAt |-> FALSE, orphanedAt |-> FALSE]

NoUser ==
  [exists |-> FALSE, walletAddress |-> 0, authMethod |-> "none",
   subscriptionTier |-> "free", agentCount |-> 0]

ExtUser(u) ==
  [exists |-> TRUE, walletAddress |-> 0, authMethod |-> "web3auth",
   subscriptionTier |-> IF u = 1 THEN "starter" ELSE "pro", agentCount |-> 0]

\* the document inserted by POST /verify for a wallet without an account
NewWalletUser(w) ==
  [exists |-> TRUE, walletAddress |-> w, authMethod |-> "wallet_claim",
   subscriptionTier |-> "starter", agentCount |-> 1]

\* The agentId field of a document is the agent's ObjectId or its hex string;
\* a query value matches a stored value of the same type only.
ObjectId(a) == [type |-> "ObjectId", hex |-> a]

\* agent._id.toString()
agentIdString(a) == [type |-> "string", hex |-> a]

\* agentId as orphan_watchlist and the AGENT_ORPHANED notifications store it
WatcherAgentId(a) == ObjectId(a)

\* agentId as the delivery records of processNotifications store it
DeliveryAgentId(a) == agentIdString(a)

\* ------------------------------------------------- messages and signatures
NoMsg == [type |-> "none", agentId |-> 0, wallet |-> 0, nonce |-> 0, timestamp |-> 0]

\* The canonical texts: each embeds its fields verbatim on fixed lines, the
\* first line telling a claim from an opt-out.
generateClaimMessage(agentId, walletAddress, nonce, timestamp) ==
  [type |-> "claim", agentId |-> agentId, wallet |-> walletAddress,
   nonce |-> nonce, timestamp |-> timestamp]

generateOptOutMessage(walletAddress, nonce, timestamp) ==
  [type |-> "optout", agentId |-> 0, wallet |-> walletAddress,
   nonce |-> nonce, timestamp |-> timestamp]

\* A signature is the pair (key that produced it, text it was produced over);
\* signer 0 is a string that does not decode to 64 bytes.
BadSig == [signer |-> 0, msg |-> NoMsg]

verifySolanaSignature_Never(walletAddress, message, signature) == FALSE

verifySolanaSignature_KeyOnly(walletAddress, message, signature) ==
  /\ signature.signer # 0
  /\ signature.signer = walletAddress

verifySolanaSignature(walletAddress, message, signature) ==
  /\ signature.signer # 0
  /\ signature.signer = walletAddress
  /\ signature.msg = message

\* ------------------------------------------------- the texts to be signed
\* A text is the sequence of its characters; "nl" is the line feed.
CLAIM_PREFIX ==
  <<"C", "l", "a", "i", "m", " ", "O", "p", "e", "n", "C", "l", "a", "w", " ", "A", "g",
    "e", "n", "t", " ", "#">>

FOR_WALLET ==
  <<" ", "f", "o", "r", " ", "w", "a", "l", "l", "e", "t", " ">>

NONCE_LABEL ==
  <<"N", "o", "n", "c", "e", ":", " ">>

TIMESTAMP_LABEL ==
  <<"T", "i", "m", "e", "s", "t", "a", "m", "p", ":", " ">>

DOMAIN_LINE ==
  <<"D", "o", "m", "a", "i", "n", ":", " ", "k", "l", "i", "k", ".", "c", "o", "o", "l">>

OPT_OUT_PREFIX ==
  <<"O", "p", "t", " ", "o", "u", "t", " ", "o", "f", " ", "O", "p", "e", "n", "C", "l",
    "a", "w", " ", "f", "o", "r", " ", "w", "a", "l", "l", "e", "t", " ">>

OPT_OUT_REQUEST ==
  <<"I", " ", "r", "e", "q", "u", "e", "s", "t", " ", "p", "e", "r", "m", "a", "n", "e",
    "n", "t", " ", "d", "e", "l", "e", "t", "i", "o", "n", " ", "o", "f", " ", "m", "y",
    " ", "O", "p", "e", "n", "C", "l", "a", "w", " ", "a", "g", "e", "n", "t", " ", "a",
    "n", "d", " ", "a", "l", "l", " ", "a", "s", "s", "o", "c", "i", "a", "t", "e", "d",
    " ", "d", "a", "t", "a", ".">>

RECURSIVE Join(_, _)
\* lines.join(sep)
Join(lines, sep) ==
  IF lines = <<>> THEN <<>>
  ELSE IF Len(lines) = 1 THEN lines[1]
  ELSE lines[1] \o sep \o Join(Tail(lines), sep)

ClaimFirstLine_NoWallet(agentId, walletAddress) == CLAIM_PREFIX \o agentId

\* `Claim OpenClaw Agent #${agentId} for wallet ${walletAddress}`
ClaimFirstLine(agentId, walletAddress) ==
  CLAIM_PREFIX \o agentId \o FOR_WALLET \o walletAddress

\* the text generateClaimMessage returns
ClaimMessageText(agentId, walletAddress, nonce, timestamp) ==
  Join(<< ClaimFirstLine(agentId, walletAddress),
          <<>>,
          NONCE_LABEL \o nonce,
          TIMESTAMP_LABEL \o timestamp,
          DOMAIN_LINE >>, <<"nl">>)

\* the text generateOptOutMessage returns
OptOutMessageText(walletAddress, nonce, timestamp) ==
  Join(<< OPT_OUT_PREFIX \o walletAddress,
          <<>>,
          OPT_OUT_REQUEST,
          <<>>,
          NONCE_LABEL \o nonce,
          TIMESTAMP_LABEL \o timestamp,
          DOMAIN_LINE >>, <<"nl">>)

\* what the routes pass to the two functions: the 24 hex digits of an
\* ObjectId, a base58 address (its length varies), the 64 hex digits of
\* crypto.randomBytes(32) and an ISO-8601 instant, each scaled down
HexDigits == {"a", "1"}
Base58Digits == {"a", "2"}
AgentIdTexts == [1..IdLen -> HexDigits]
WalletTexts == UNION {[1..k -> Base58Digits] : k \in 1..MaxWalletLen}
NonceTexts == [1..NonceLen -> HexDigits]
TimestampTexts == {<<"1">>, <<"2">>}

ClaimInputs == AgentIdTexts \X WalletTexts \X NonceTexts \X TimestampTexts
OptOutInputs == WalletTexts \X NonceTexts \X TimestampTexts

\* the text a function makes of its tuple of arguments
TextOf(args) ==
  IF Len(args) = 4 THEN ClaimMessageText(args[1], args[2], args[3], args[4])
  ELSE OptOutMessageText(args[1], args[2], args[3])

\* ------------------------------------------------------------ cache entries
NoEntry == [nonce |-> 0, timestamp |-> 0, message |-> NoMsg, ttl |-> 0]

NonceKey_WalletOnly(agentId, wallet) == <<1, wallet>>

\* `claim:nonce:${agentId}:${wallet}`
NonceKey(agentId, wallet) == <<agentId, wallet>>

ClaimKeys == AgentIds \X Wallets

\* ---------------------------------------------------- notification schedule
NOTIFICATION_SCHEDULE ==
  << [daysAfterCreation |-> 0, template |-> "AGENT_CREATED"],
     [daysAfterCreation |-> 7, template |-> "WEEK_1_UPDATE"],
     [daysAfterCreation |-> 14, template |-> "HALFWAY_WARNING"],
     [daysAfterCreation |-> 21, template |-> "NINE_DAYS_LEFT"],
     [daysAfterCreation |-> 25, template |-> "FIVE_DAYS_LEFT"],
     [daysAfterCreation |-> 28, template |-> "TWO_DAYS_LEFT"],
     [daysAfterCreation |-> 29, template |-> "FINAL_DAY"] >>

Templates == {NOTIFICATION_SCHEDULE[i].template : i \in DOMAIN NOTIFICATION_SCHEDULE}

\* the value of claim:notifications:lastRun before any run cached its summary
NoSummary == [processed |-> 0, sent |-> 0, failed |-> 0, skipped |-> 0, set |-> FALSE]

\* ------------------------------------------------------ estimateBatchCost
\* A number with decimals is the fraction num / den.
totalLamports_PlusBase(count) == count * ESTIMATED_LAMPORTS_PER_TX + ESTIMATED_LAMPORTS_PER_TX \div 2

\* count * ESTIMATED_LAMPORTS_PER_TX
totalLamports(count) == count * ESTIMATED_LAMPORTS_PER_TX

\* totalLamports / 1e9
totalSol(lamports) == [num |-> lamports, den |-> LAMPORTS_PER_SOL]

\* totalSol * 150
totalUsd(sol) == [num |-> sol.num * USD_PER_SOL, den |-> sol.den]

Pow10(k) == CASE k = 2 -> 100 [] k = 6 -> 1000000 [] OTHER -> 1

\* parseFloat(x.toFixed(digits)), in units of 10^-digits: the multiple of the
\* unit nearest to x; where x lies half-way between two multiples, the double
\* that stands for x decides, and either neighbour can come out
toFixed(x, digits) ==
  LET unit == x.den \div Pow10(digits)
      q == x.num \div unit
      twice == 2 * (x.num % unit)
  IN IF twice < unit THEN {q}
     ELSE IF twice > unit THEN {q + 1}
     ELSE {q, q + 1}

NoCost ==
  [totalLamports |-> 0, totalSol |-> 0, totalUsd |-> 0, perTxLamports |-> 0,
   count |-> 0 - 1]

\* the objects the function can return for count: totalSol in millionths of a
\* SOL, totalUsd in cents
estimateBatchCost(count) ==
  LET lamports == totalLamports(count)
      sol == totalSol(lamports)
      usd == totalUsd(sol)
  IN {[totalLamports |-> lamports, totalSol |-> s, totalUsd |-> u,
       perTxLamports |-> ESTIMATED_LAMPORTS_PER_TX, count |-> count] :
        s \in toFixed(sol, 6), u \in toFixed(usd, 2)}

\* ------------------------------------------------------------------ calls
IdleCall ==
  [kind |-> "idle", pc |-> "idle", wallet |-> 0, agentId |-> 0, sig |-> BadSig,
   nonce |-> 0, user |-> 0, msg |-> NoMsg, found |-> 0, queue |-> <<>>,
   resp |-> "none", armed |-> FALSE, replay |-> FALSE, late |-> FALSE,
   wq |-> <<>>, transitioned |-> 0, notified |-> 0, snap |-> {},
   now |-> 0, days |-> 0, idx |-> 0, sentTemplates |-> {}, sent |-> 0,
   failed |-> 0, skipped |-> 0, outcome |-> "none", dispatched |-> {},
   dispatches |-> 0, ready |-> TRUE, opFailed |-> FALSE, entered |-> FALSE,
   recorded |-> FALSE, daysRemaining |-> 0 - 1, cost |-> NoCost,
   args |-> <<>>, text |-> <<>>, returned |-> 0, count |-> 0,
   fails |-> FALSE, tried |-> {}, messageText |-> <<>>, memo |-> <<>>,
   audit |-> <<>>, malformed |-> "none", floorAmount |-> 0,
   withdrawalId |-> 0, txSignature |-> 0]

VARIABLES
  agents,        \* Agent collection (wallet agents): id -> document
  nextAgentId,   \* ids are never reused
  users,         \* User collection
  optOuts,       \* wallet_opt_outs: the number of documents per walletAddress
  claimNonces,   \* cache: claim:nonce:<agent>:<wallet>
  optOutNonces,  \* cache: claim:optout:nonce:<wallet>
  pastDeadline,  \* the agents whose claimDeadline is <= new Date()
  nextNonce,     \* the next value crypto.randomBytes yields
  calls,         \* requests and scheduler runs in flight
  issued,        \* history: nonce -> message it was issued with
  consumed,      \* history: <<agent, wallet, nonce>> of successful claims
  optedOut,      \* history: wallets whose POST /opt-out answered success
  claimCount,    \* history: UNCLAIMED -> CLAIMED transitions per agent
  adoptCount,    \* history: ORPHANED -> ADOPTED transitions per agent
  adoptsWon,     \* history: adoptions won per user
  watchlist,     \* orphan_watchlist: documents [userId, agentId, notified]
  orphanLog,     \* wallet_agent_claims: entries with action ORPHANED per agent
  watcherNotifs, \* wallet_agent_notifications: AGENT_ORPHANED documents per
                 \* <<user, agent>>
  lastRun,       \* history: what the last finished scheduler run left behind
  today,         \* the clock, in whole days
  notifSent,     \* wallet_agent_notifications: documents with status 'sent'
                 \* per <<agent, template>>
  notifFailed,   \* wallet_agent_notifications: documents with status 'failed'
                 \* per agent
  notifyLastRun, \* cache: claim:notifications:lastRun
  deliveries,    \* history: memos the delivery channel confirmed, per
                 \* <<agent, template>>
  ipCount,       \* cache: claim:abuse:ip:<ip>, 0 when the key is absent
  failCount,     \* cache: claim:abuse:wallet:<wallet>, 0 when the key is absent
  expiry,        \* cache: whether the key of an abuse counter carries a TTL
  klikBalance,   \* User collection: klikBalance of the users that withdraw
  Withdrawal     \* Withdrawal collection: the documents in insertion order

vars ==
  <<agents, nextAgentId, users, optOuts, claimNonces, optOutNonces,
    pastDeadline, nextNonce, calls, issued, consumed, optedOut, claimCount, adoptCount,
    adoptsWon, watchlist, orphanLog, watcherNotifs, lastRun, today, notifSent,
    notifFailed, notifyLastRun, deliveries, ipCount, failCount, expiry,
    klikBalance, Withdrawal>>

orphanVars == <<watchlist, orphanLog, watcherNotifs, lastRun>>
notifyVars == <<today, notifSent, notifFailed, notifyLastRun, deliveries>>
abuseVars == <<ipCount, failCount, expiry>>
payoutVars == <<klikBalance, Withdrawal>>
moreVars == <<notifyVars, abuseVars, payoutVars>>
sideVars == <<orphanVars, moreVars>>
dbVars == <<agents, nextAgentId, users, optOuts>>
cacheVars == <<claimNonces, optOutNonces>>
histVars == <<issued, consumed, optedOut, claimCount, adoptCount, adoptsWon>>

\* the history of confirmed memos is kept for the pairs of the domain
DeliveriesUntracked == [k \in {} |-> 0]
NoDeliveries(agentIds) == [k \in agentIds \X Templates |-> 0]

\* the failed-attempt counters are kept for the wallets of the domain
FailuresUntracked == [w \in {} |-> 0]

\* the TTLs of the abuse counters are kept for the keys of the domain: IpKey
\* for claim:abuse:ip:<ip>, a wallet for claim:abuse:wallet:<wallet>
IpKey == 0
ExpiryUntracked == [k \in {} |-> FALSE]
NoExpiry(keys) == [k \in keys |-> FALSE]

\* the balances are kept for the users of the domain
BalancesUntracked == [u \in {} |-> 0]
NoFailures(wallets) == [w \in wallets |-> 0]

\* the history of scheduler runs is kept (NoRunYet) or not (RunsUntracked)
RunsUntracked == [on |-> FALSE, valid |-> FALSE, view |-> <<>>]
NoRunYet == [on |-> TRUE, valid |-> FALSE, view |-> <<>>]

\* The empty store and cache, with room for the agents of agentIds, the
\* requests of callIds and the nonces of nonces.
InitStore(agentIds, callIds, nonces) ==
  /\ agents = [a \in agentIds |-> NoAgent]
  /\ nextAgentId = 1
  /\ users = [u \in 1..(NumUsers + Cardinality(agentIds)) |->
                IF u \in ExtUsers THEN ExtUser(u) ELSE NoUser]
  /\ optOuts = [w \in Wallets |-> 0]
  /\ claimNonces = [k \in agentIds \X Wallets |-> NoEntry]
  /\ optOutNonces = [w \in Wallets |-> NoEntry]
  /\ pastDeadline = {}
  /\ nextNonce = 1
  /\ calls = [c \in callIds |-> IdleCall]
  /\ issued = [n \in nonces |-> NoMsg]
  /\ consumed = {}
  /\ optedOut = {}
  /\ claimCount = [a \in agentIds |-> 0]
  /\ adoptCount = [a \in agentIds |-> 0]
  /\ adoptsWon = [u \in 1..(NumUsers + Cardinality(agentIds)) |-> 0]
  /\ watchlist = {}
  /\ orphanLog = [a \in agentIds |-> 0]
  /\ watcherNotifs = [x \in (1..(NumUsers + Cardinality(agentIds))) \X agentIds |-> 0]
  /\ today = 0
  /\ notifSent = [k \in agentIds \X Templates |-> 0]
  /\ notifFailed = [a \in agentIds |-> 0]
  /\ notifyLastRun = NoSummary
  /\ ipCount = 0
  /\ Withdrawal = <<>>

InitWith(agentIds, callIds, nonces) ==
  InitStore(agentIds, callIds, nonces) /\ lastRun = RunsUntracked
    /\ deliveries = DeliveriesUntracked /\ failCount = FailuresUntracked
    /\ expiry = ExpiryUntracked /\ klikBalance = BalancesUntracked

Init == InitWith(AgentIds, CallIds, Nonces)

\* ------------------------------------------------------------- store reads
\* db.collection('Agent').findOne({'walletAgentData.sourceWallet': wallet})
AgentOfWallet(w) ==
  IF \E a \in DOMAIN agents : agents[a].exists /\ agents[a].sourceWallet = w
  THEN CHOOSE a \in DOMAIN agents : agents[a].exists /\ agents[a].sourceWallet = w
  ELSE 0

\* db.collection('User').findOne({ walletAddress: wallet })
UserOfWallet(w) ==
  IF \E u \in DOMAIN users : users[u].exists /\ users[u].walletAddress = w
  THEN CHOOSE u \in DOMAIN users : users[u].exists /\ users[u].walletAddress = w
  ELSE 0

\* redis.get: the value, or null when the key was never set, was deleted or
\* has expired
Live(entry) == entry.nonce # 0

Done(c, code) == [calls[c] EXCEPT !.pc = "done", !.resp = code]
Goto(c, label) == [calls[c] EXCEPT !.pc = label]

\* An answer is sent as soon as it is ready: nothing else happens between a
\* handler's last step and the departure of its answer.
Quiet == \A c \in DOMAIN calls : calls[c].pc # "done"

At(c, label) == Quiet /\ calls[c].pc = label

\* ------------------------------------------------------------ environment
\* A wallet agent is created UNCLAIMED with a fixed claim window; the unique
\* sparse index on walletAgentData.sourceWallet refuses a second agent for
\* the same wallet.
CreateAgent(w) ==
  /\ Quiet
  /\ nextAgentId \in DOMAIN agents
  /\ AgentOfWallet(w) = 0
  /\ agents' = [agents EXCEPT ![nextAgentId] =
                  [NewWalletAgent(w) EXCEPT !.createdAt = today]]
  /\ nextAgentId' = nextAgentId + 1
  /\ UNCHANGED <<sideVars, users, optOuts, cacheVars, pastDeadline, nextNonce, calls, histVars>>

\* the clock reaches walletAgentData.claimDeadline
DeadlinePasses(a) ==
  /\ Quiet
  /\ agents[a].exists
  /\ a \notin pastDeadline
  /\ pastDeadline' = pastDeadline \cup {a}
  /\ UNCHANGED <<sideVars, dbVars, cacheVars, nextNonce, calls, histVars>>

\* the EX timer of a claim nonce key fires
ClaimNonceExpires(k) ==
  /\ Quiet
  /\ claimNonces[k].nonce # 0
  /\ claimNonces' = [claimNonces EXCEPT ![k] = NoEntry]
  /\ UNCHANGED <<sideVars, dbVars, optOutNonces, pastDeadline, nextNonce, calls, histVars>>

\* the EX timer of an opt-out nonce key fires
OptOutNonceExpires(w) ==
  /\ Quiet
  /\ optOutNonces[w].nonce # 0
  /\ optOutNonces' = [optOutNonces EXCEPT ![w] = NoEntry]
  /\ UNCHANGED <<sideVars, dbVars, claimNonces, pastDeadline, nextNonce, calls, histVars>>

\* A finished request leaves; its slot serves the next one.
Retire(c) ==
  /\ calls[c].pc = "done"
  /\ calls' = [calls EXCEPT ![c] = IdleCall]
  /\ UNCHANGED <<sideVars, dbVars, cacheVars, pastDeadline, nextNonce, histVars>>

\* Request slots are handed out lowest first.
FreeSlot(c) ==
  /\ Quiet
  /\ calls[c].kind = "idle"
  /\ \A d \in DOMAIN calls : d < c => calls[d].kind # "idle"

\* requests that have yet to draw their nonce
PendingDraws ==
  Cardinality({c \in DOMAIN calls :
                 \/ calls[c].pc = "on_agent"
                 \/ /\ calls[c].pc \in {"d_incr", "d_get", "d_next"}
                    /\ calls[c].kind \in {"nonce", "optnonce"}})

\* ------------------------------------------------- POST /api/v1/claim/nonce
NewNonceCall(w, a) ==
  [IdleCall EXCEPT !.kind = "nonce", !.pc = "n_find", !.wallet = w,
                   !.agentId = a, !.late = (optOuts[w] > 0)]

\* findOne({_id, isWalletAgent, sourceWallet}), the status and deadline checks,
\* then the nonce, timestamp and message are made; the timestamp is the clock
\* reading, which orders the issuances as the nonce counter does
NonceFindFrom(c, r) ==
  /\ LET agent == agents[r.agentId]
         msg == generateClaimMessage(r.agentId, r.wallet, nextNonce, nextNonce)
     IN IF ~(agent.exists /\ agent.sourceWallet = r.wallet)
          THEN /\ calls' = [calls EXCEPT ![c] = [r EXCEPT !.pc = "done", !.resp = "AGENT_NOT_FOUND"]]
               /\ UNCHANGED <<sideVars, nextNonce, issued>>
        ELSE IF agent.claimStatus # "UNCLAIMED"
          THEN /\ calls' = [calls EXCEPT ![c] = [r EXCEPT !.pc = "done", !.resp = "NOT_CLAIMABLE"]]
               /\ UNCHANGED <<sideVars, nextNonce, issued>>
        ELSE IF r.agentId \in pastDeadline
          THEN /\ calls' = [calls EXCEPT ![c] = [r EXCEPT !.pc = "done", !.resp = "CLAIM_EXPIRED"]]
               /\ UNCHANGED <<sideVars, nextNonce, issued>>
        ELSE /\ calls' = [calls EXCEPT ![c] =
                  [r EXCEPT !.pc = "n_set", !.nonce = nextNonce, !.msg = msg]]
             /\ nextNonce' = nextNonce + 1
             /\ issued' = [issued EXCEPT ![nextNonce] = msg]
  /\ UNCHANGED <<sideVars, dbVars, cacheVars, pastDeadline, consumed, optedOut, claimCount, adoptCount, adoptsWon>>

\* the request arrives and its first read is made
NonceArrive(c, w, a) ==
  /\ FreeSlot(c)
  /\ nextNonce + PendingDraws \in DOMAIN issued
  /\ NonceFindFrom(c, NewNonceCall(w, a))

StoreNonce_IfAbsent(store, key, entry) ==
  IF Live(store[key]) THEN store ELSE [store EXCEPT ![key] = entry]

\* redis.set(key, value, {EX}): the value and the expiry of the key are replaced
StoreNonce(store, key, entry) == [store EXCEPT ![key] = entry]

NonceAnswer_Fallback(r) == [r EXCEPT !.pc = "done", !.resp = "OK", !.returned = r.nonce]

\* res.json({nonce, message, timestamp, expiresIn}) after the set, or 503
\* CACHE_UNAVAILABLE, without a nonce, in the else branch
NonceAnswer(r) ==
  IF r.ready THEN [r EXCEPT !.pc = "done", !.resp = "OK", !.returned = r.nonce]
  ELSE [r EXCEPT !.pc = "done", !.resp = "CACHE_UNAVAILABLE"]

\* if (redis && redis.isReady) redis.set(nonceKey, {nonce, timestamp, message},
\* {EX: NONCE_TTL_SECONDS}), then the answer
NonceSet(c) ==
  /\ At(c, "n_set")
  /\ LET r == calls[c]
     IN claimNonces' =
          IF r.ready
            THEN StoreNonce(claimNonces, NonceKey(r.agentId, r.wallet),
                    [nonce |-> r.nonce, timestamp |-> r.msg.timestamp, message |-> r.msg,
                     ttl |-> NONCE_TTL_SECONDS])
          ELSE claimNonces
  /\ calls' = [calls EXCEPT ![c] = NonceAnswer(calls[c])]
  /\ UNCHANGED <<sideVars, dbVars, optOutNonces, pastDeadline, nextNonce, histVars>>

\* redis.set rejects: the handler's catch answers 500 without a nonce
NonceSetThrows(c) ==
  /\ At(c, "n_set")
  /\ calls[c].ready
  /\ calls' = [calls EXCEPT ![c] = Done(c, "ERROR_500")]
  /\ UNCHANGED <<sideVars, dbVars, cacheVars, pastDeadline, nextNonce, histVars>>

\* the cache is offline by the time the handler looks at redis.isReady
CacheOffline(c) ==
  /\ At(c, "n_set")
  /\ calls[c].ready
  /\ calls' = [calls EXCEPT ![c].ready = FALSE]
  /\ UNCHANGED <<sideVars, dbVars, cacheVars, pastDeadline, nextNonce, histVars>>

\* wallet_agent_claims.insertOne({walletAddress, action, reason}) of a failed
\* request: the entries a request has appended are kept with the request
AuditEntry(wallet, action, reason) ==
  [walletAddress |-> wallet, action |-> action, reason |-> reason]

\* ------------------------------------------------ POST /api/v1/claim/verify
NewVerifyCall(w, a, sig, n) ==
  LET entry == claimNonces[<<a, w>>]
  IN [IdleCall EXCEPT !.kind = "verify", !.pc = "v_read", !.wallet = w,
        !.agentId = a, !.sig = sig, !.nonce = n,
        !.armed = /\ Live(entry) /\ entry.nonce = n
                  /\ sig.signer = w /\ sig.msg = entry.message
                  /\ agents[a].exists /\ agents[a].sourceWallet = w
                  /\ agents[a].claimStatus = "UNCLAIMED",
        !.replay = (<<a, w, n>> \in consumed),
        !.late = (optOuts[w] > 0)]

\* redis.get(nonceKey), the nonce comparison and the signature check; 503
\* CACHE_UNAVAILABLE when the cache is not ready
VerifyReadResult(r) ==
  LET entry == claimNonces[NonceKey(r.agentId, r.wallet)]
  IN IF ~r.ready THEN [r EXCEPT !.pc = "done", !.resp = "CACHE_UNAVAILABLE"]
     ELSE IF ~Live(entry)
       THEN [r EXCEPT !.pc = "done", !.resp = "NONCE_EXPIRED", !.recorded = TRUE]
     ELSE IF entry.nonce # r.nonce
       THEN [r EXCEPT !.pc = "done", !.resp = "NONCE_MISMATCH", !.recorded = TRUE]
     ELSE IF ~verifySolanaSignature(r.wallet, entry.message, r.sig)
       THEN [r EXCEPT !.pc = "done", !.resp = "INVALID_SIGNATURE", !.recorded = TRUE,
                      !.audit = @ \o <<AuditEntry(r.wallet, "CLAIM_FAILED",
                                                  "INVALID_SIGNATURE")>>]
     ELSE [r EXCEPT !.pc = "v_update", !.msg = entry.message]

\* recordFailedClaimAttempt: redis.incr of the wallet's key and, when the
\* result is 1, redis.expire(key, 3600)
recordFailedClaimAttempt(wallet) ==
  IF wallet \in DOMAIN failCount
    THEN [failCount EXCEPT ![wallet] = Min(@ + 1, WALLET_FAIL_LIMIT + 1)]
  ELSE failCount

\* the counter after the read of request r: the three failures of the read
\* are recorded before they are answered
FailuresAfter(r) ==
  IF VerifyReadResult(r).recorded THEN recordFailedClaimAttempt(r.wallet) ELSE failCount

\* the request is accepted; the rate limiters and the abuse detector run
\* before the handler and yield to other requests
StartVerify(c, w, a, sig, n) ==
  /\ FreeSlot(c)
  /\ calls' = [calls EXCEPT ![c] = NewVerifyCall(w, a, sig, n)]
  /\ UNCHANGED <<sideVars, dbVars, cacheVars, pastDeadline, nextNonce, histVars>>

VerifyRead(c) ==
  /\ At(c, "v_read")
  /\ calls' = [calls EXCEPT ![c] = VerifyReadResult(calls[c])]
  /\ failCount' = FailuresAfter(calls[c])
  /\ UNCHANGED <<orphanVars, notifyVars, payoutVars, ipCount, expiry, dbVars, cacheVars, pastDeadline, nextNonce,
                 histVars>>

\* the request arrives and its first read is made
VerifyArrive(c, w, a, sig, n) ==
  /\ FreeSlot(c)
  /\ calls' = [calls EXCEPT ![c] = VerifyReadResult(NewVerifyCall(w, a, sig, n))]
  /\ failCount' = FailuresAfter(NewVerifyCall(w, a, sig, n))
  /\ UNCHANGED <<orphanVars, notifyVars, payoutVars, ipCount, expiry, dbVars, cacheVars, pastDeadline, nextNonce,
                 histVars>>

ClaimFilter_NoStatus(agent, wallet) ==
  /\ agent.exists
  /\ agent.sourceWallet = wallet

ClaimFilter_NotClaimed(agent, wallet) ==
  /\ agent.exists
  /\ agent.sourceWallet = wallet
  /\ agent.claimStatus # "CLAIMED"

\* the filter of the findOneAndUpdate
ClaimFilter(agent, wallet) ==
  /\ agent.exists
  /\ agent.sourceWallet = wallet
  /\ agent.claimStatus = "UNCLAIMED"

VerifyUpdate(c) ==
  /\ At(c, "v_update")
  /\ LET r == calls[c]
         a == r.agentId
     IN IF ClaimFilter(agents[a], r.wallet)
          THEN /\ agents' = [agents EXCEPT ![a].claimStatus = "CLAIMED",
                                           ![a].claimedAt = TRUE,
                                           ![a].claimedBy = r.wallet,
                                           ![a].claimNonce = r.nonce]
               /\ claimCount' = [claimCount EXCEPT ![a] = Min(@ + 1, 2)]
               /\ calls' = [calls EXCEPT ![c] = Goto(c, "v_user")]
          ELSE /\ calls' = [calls EXCEPT ![c] = Goto(c, "v_conflict")]
               /\ UNCHANGED <<sideVars, agents, claimCount>>
  /\ UNCHANGED <<sideVars, nextAgentId, users, optOuts, cacheVars, pastDeadline, nextNonce,
                 issued, consumed, optedOut, adoptCount, adoptsWon>>

DeleteNonce_Keep(store, key) == store

\* redis.del(key)
DeleteNonce(store, key) == [store EXCEPT ![key] = NoEntry]

\* redis.del(nonceKey), then 409 ALREADY_CLAIMED
VerifyConflict(c) ==
  /\ At(c, "v_conflict")
  /\ claimNonces' = DeleteNonce(claimNonces, NonceKey(calls[c].agentId, calls[c].wallet))
  /\ calls' = [calls EXCEPT ![c] = Done(c, "ALREADY_CLAIMED")]
  /\ UNCHANGED <<sideVars, dbVars, optOutNonces, pastDeadline, nextNonce, histVars>>

VerifyFindUser(c) ==
  /\ At(c, "v_user")
  /\ LET u == UserOfWallet(calls[c].wallet)
     IN calls' = [calls EXCEPT ![c] =
          IF u = 0 THEN Goto(c, "v_insert")
          ELSE [calls[c] EXCEPT !.pc = "v_link", !.user = u]]
  /\ UNCHANGED <<sideVars, dbVars, cacheVars, pastDeadline, nextNonce, histVars>>

VerifyInsertUser(c) ==
  /\ At(c, "v_insert")
  /\ LET u == NumUsers + calls[c].agentId
     IN /\ users' = [users EXCEPT ![u] = NewWalletUser(calls[c].wallet)]
        /\ calls' = [calls EXCEPT ![c] = [calls[c] EXCEPT !.pc = "v_link", !.user = u]]
  /\ UNCHANGED <<sideVars, agents, nextAgentId, optOuts, cacheVars, pastDeadline, nextNonce, histVars>>

\* updateOne({_id}, {$set: {userId, owner}}): matches nothing if the agent is gone
VerifyLink(c) ==
  /\ At(c, "v_link")
  /\ LET a == calls[c].agentId
     IN agents' = IF agents[a].exists
                  THEN [agents EXCEPT ![a].userId = calls[c].user]
                  ELSE agents
  /\ calls' = [calls EXCEPT ![c] = Goto(c, "v_count")]
  /\ UNCHANGED <<sideVars, nextAgentId, users, optOuts, cacheVars, pastDeadline, nextNonce, histVars>>

\* countDocuments({claimStatus: 'CLAIMED', _id: {$ne: claimed}}) + 1
VerifyCount(c) ==
  /\ At(c, "v_count")
  /\ LET previousClaims == Cardinality({b \in DOMAIN agents :
           /\ agents[b].exists /\ agents[b].claimStatus = "CLAIMED"
           /\ b # calls[c].agentId})
     IN calls' = [calls EXCEPT ![c] =
          [calls[c] EXCEPT !.pc = "v_rank", !.found = previousClaims + 1]]
  /\ UNCHANGED <<sideVars, dbVars, cacheVars, pastDeadline, nextNonce, histVars>>

VerifyRank(c) ==
  /\ At(c, "v_rank")
  /\ LET a == calls[c].agentId
     IN agents' = IF calls[c].found <= FOUNDING_LIMIT /\ agents[a].exists
                  THEN [agents EXCEPT ![a].foundingRank = calls[c].found]
                  ELSE agents
  /\ calls' = [calls EXCEPT ![c] = Goto(c, "v_del")]
  /\ UNCHANGED <<sideVars, nextAgentId, users, optOuts, cacheVars, pastDeadline, nextNonce, histVars>>

\* redis.del(nonceKey), the CLAIM_SUCCESS log entry, the token and the answer
VerifyFinish(c) ==
  /\ At(c, "v_del")
  /\ LET r == calls[c]
     IN /\ claimNonces' = DeleteNonce(claimNonces, NonceKey(r.agentId, r.wallet))
        /\ consumed' = consumed \cup {<<r.agentId, r.wallet, r.nonce>>}
  /\ calls' = [calls EXCEPT ![c] = Done(c, "OK")]
  /\ UNCHANGED <<sideVars, dbVars, optOutNonces, pastDeadline, nextNonce, issued, optedOut,
                 claimCount, adoptCount, adoptsWon>>

IssuedNonces == {n \in DOMAIN issued : issued[n] # NoMsg}

\* what a client can put in the signature field: a malformed string, or what
\* some key produced over some text that was handed out
Signatures ==
  {BadSig}
  \cup {[signer |-> w, msg |-> issued[n]] : w \in Wallets, n \in IssuedNonces}
  \cup {[signer |-> issued[n].wallet,
          msg |-> generateOptOutMessage(issued[n].wallet, n, issued[n].timestamp)] :
          n \in IssuedNonces}

\* what the owner of the wallet named in a nonce's message would sign for it
OwnerSignature(n) == [signer |-> issued[n].wallet, msg |-> issued[n]]

VerifyStep(c) ==
  \/ VerifyUpdate(c) \/ VerifyConflict(c)
  \/ VerifyFindUser(c) \/ VerifyInsertUser(c) \/ VerifyLink(c)
  \/ VerifyCount(c) \/ VerifyRank(c) \/ VerifyFinish(c)

\* Claim requests alone: agents appear, time passes, nonces are issued and
\* presented, by anyone, with any signature.
NextClaim ==
  \/ \E c \in CallIds : Retire(c)
  \/ \E w \in Wallets : CreateAgent(w)
  \/ \E k \in ClaimKeys : ClaimNonceExpires(k)
  \/ \E c \in CallIds, w \in Wallets, a \in AgentIds : NonceArrive(c, w, a)
  \/ \E c \in CallIds : NonceSet(c)
  \/ \E c \in CallIds, w \in Wallets, a \in AgentIds, n \in IssuedNonces :
       \E sig \in Signatures : VerifyArrive(c, w, a, sig, n)
  \/ \E c \in CallIds : VerifyStep(c)

SpecClaim == Init /\ [][NextClaim]_vars

\* ------------------------------------------ POST /api/v1/claim/opt-out/nonce
OptOutLookup_Miss(w) == FALSE

\* db.collection('wallet_opt_outs').findOne({ walletAddress: wallet })
OptOutLookup(w) == optOuts[w] > 0

NewOptNonceCall(w) == [IdleCall EXCEPT !.kind = "optnonce", !.wallet = w]

OptNonceLookupResult(r) ==
  IF OptOutLookup(r.wallet) THEN [r EXCEPT !.pc = "done", !.resp = "ALREADY_OPTED_OUT"]
  ELSE [r EXCEPT !.pc = "on_agent"]

OptNonceArrive(c, w) ==
  /\ FreeSlot(c)
  /\ nextNonce + PendingDraws \in DOMAIN issued
  /\ calls' = [calls EXCEPT ![c] = OptNonceLookupResult(NewOptNonceCall(w))]
  /\ UNCHANGED <<sideVars, dbVars, cacheVars, pastDeadline, nextNonce, histVars>>

\* findOne({sourceWallet, isWalletAgent}); without an agent 404 NO_AGENT, else
\* the nonce, timestamp and message are made
OptNonceAgent(c) ==
  /\ At(c, "on_agent")
  /\ LET r == calls[c]
         msg == generateOptOutMessage(r.wallet, nextNonce, nextNonce)
     IN IF AgentOfWallet(r.wallet) = 0
          THEN /\ calls' = [calls EXCEPT ![c] = Done(c, "NO_AGENT")]
               /\ UNCHANGED <<sideVars, nextNonce, issued>>
          ELSE /\ calls' = [calls EXCEPT ![c] =
                    [r EXCEPT !.pc = "on_set", !.nonce = nextNonce, !.msg = msg]]
               /\ nextNonce' = nextNonce + 1
               /\ issued' = [issued EXCEPT ![nextNonce] = msg]
  /\ UNCHANGED <<sideVars, dbVars, cacheVars, pastDeadline, consumed, optedOut, claimCount, adoptCount, adoptsWon>>

\* redis.set(`claim:optout:nonce:${wallet}`, ..., {EX: NONCE_TTL_SECONDS});
\* 503 CACHE_UNAVAILABLE when the cache is not ready
OptNonceSet(c) ==
  /\ At(c, "on_set")
  /\ LET r == calls[c]
     IN optOutNonces' =
          IF r.ready
            THEN [optOutNonces EXCEPT ![r.wallet] =
                    [nonce |-> r.nonce, timestamp |-> r.msg.timestamp, message |-> r.msg,
                     ttl |-> NONCE_TTL_SECONDS]]
          ELSE optOutNonces
  /\ calls' = [calls EXCEPT ![c] =
       Done(c, IF calls[c].ready THEN "OK" ELSE "CACHE_UNAVAILABLE")]
  /\ UNCHANGED <<sideVars, dbVars, claimNonces, pastDeadline, nextNonce, histVars>>

\* ----------------------------------------------- POST /api/v1/claim/opt-out
NewOptOutCall(w, sig, n) ==
  [IdleCall EXCEPT !.kind = "optout", !.wallet = w, !.sig = sig, !.nonce = n]

\* redis.get(nonceKey), the nonce comparison and the signature check; 503
\* CACHE_UNAVAILABLE when the cache is not ready; the failures are answered
\* (an invalid signature after its audit entry) without being recorded
OptOutReadResult(r) ==
  LET entry == optOutNonces[r.wallet]
  IN IF ~r.ready THEN [r EXCEPT !.pc = "done", !.resp = "CACHE_UNAVAILABLE"]
     ELSE IF ~Live(entry) THEN [r EXCEPT !.pc = "done", !.resp = "NONCE_EXPIRED"]
     ELSE IF entry.nonce # r.nonce THEN [r EXCEPT !.pc = "done", !.resp = "NONCE_MISMATCH"]
     ELSE IF ~verifySolanaSignature(r.wallet, entry.message, r.sig)
       THEN [r EXCEPT !.pc = "done", !.resp = "INVALID_SIGNATURE",
                      !.audit = @ \o <<AuditEntry(r.wallet, "OPT_OUT_FAILED",
                                                  "INVALID_SIGNATURE")>>]
     ELSE [r EXCEPT !.pc = "o_find", !.msg = entry.message]

OptOutArrive(c, w, sig, n) ==
  /\ FreeSlot(c)
  /\ calls' = [calls EXCEPT ![c] = OptOutReadResult(NewOptOutCall(w, sig, n))]
  /\ UNCHANGED <<sideVars, dbVars, cacheVars, pastDeadline, nextNonce, histVars>>

AfterFind_InsertFirst(a) == "o_insert"

\* if (agent) { deleteOne, deleteMany ... } comes before the insertOne into
\* wallet_opt_outs
AfterFind(a) == IF a # 0 THEN "o_delete" ELSE "o_insert"

\* findOne({sourceWallet, isWalletAgent}): the agent to delete, if any
OptOutFind(c) ==
  /\ At(c, "o_find")
  /\ LET a == AgentOfWallet(calls[c].wallet)
     IN calls' = [calls EXCEPT ![c] =
          [calls[c] EXCEPT !.found = a, !.pc = AfterFind(a)]]
  /\ UNCHANGED <<sideVars, dbVars, cacheVars, pastDeadline, nextNonce, histVars>>

\* deleteOne({ _id: agent._id }), whatever the agent's claimStatus
OptOutDelete(c) ==
  /\ At(c, "o_delete")
  /\ agents' = [agents EXCEPT ![calls[c].found] = NoAgent]
  /\ calls' = [calls EXCEPT ![c] = Goto(c, "o_related")]
  /\ UNCHANGED <<sideVars, nextAgentId, users, optOuts, cacheVars, pastDeadline, nextNonce, histVars>>

RelatedFilter_AnyType(stored, agent) == stored.hex = agent

\* the filter {agentId: agent._id} of the deleteMany calls
RelatedFilter(stored, agent) == stored = ObjectId(agent)

\* Promise.all of the deleteMany({agentId: agent._id}) calls on the agent's
\* records: of the collections kept here, orphan_watchlist and
\* wallet_agent_notifications
OptOutRelated(c) ==
  /\ At(c, "o_related")
  /\ LET agent == calls[c].found
     IN /\ watchlist' = {x \in watchlist : ~RelatedFilter(WatcherAgentId(x.agentId), agent)}
        /\ watcherNotifs' = [x \in DOMAIN watcherNotifs |->
               IF RelatedFilter(WatcherAgentId(x[2]), agent) THEN 0 ELSE watcherNotifs[x]]
        /\ notifSent' = [k \in DOMAIN notifSent |->
               IF RelatedFilter(DeliveryAgentId(k[1]), agent) THEN 0 ELSE notifSent[k]]
        /\ notifFailed' = [a \in DOMAIN notifFailed |->
               IF RelatedFilter(DeliveryAgentId(a), agent) THEN 0 ELSE notifFailed[a]]
  /\ calls' = [calls EXCEPT ![c] = Goto(c, "o_insert")]
  /\ UNCHANGED <<abuseVars, payoutVars, today, notifyLastRun, deliveries, orphanLog, lastRun, dbVars,
                 cacheVars, pastDeadline, nextNonce, histVars>>

idx_opt_outs_wallet_None(w) == TRUE

\* createIndex({walletAddress: 1}, {unique: true, name: 'idx_opt_outs_wallet'}):
\* an insert is accepted for a wallet without a document
idx_opt_outs_wallet(w) == optOuts[w] = 0

\* wallet_opt_outs.insertOne: the unique index makes a second insert for the
\* wallet throw, which the handler's catch answers with 500
OptOutInsert(c) ==
  /\ At(c, "o_insert")
  /\ IF idx_opt_outs_wallet(calls[c].wallet)
       THEN /\ optOuts' = [optOuts EXCEPT ![calls[c].wallet] = Min(@ + 1, 2)]
            /\ calls' = [calls EXCEPT ![c] = Goto(c, "o_del")]
       ELSE /\ calls' = [calls EXCEPT ![c] = Done(c, "ERROR_500")]
            /\ UNCHANGED optOuts
  /\ UNCHANGED <<sideVars, agents, nextAgentId, users, cacheVars, pastDeadline, nextNonce, histVars>>

\* redis.del(nonceKey), the OPT_OUT_SUCCESS log entry and the answer
OptOutFinish(c) ==
  /\ At(c, "o_del")
  /\ optOutNonces' = DeleteNonce(optOutNonces, calls[c].wallet)
  /\ optedOut' = optedOut \cup {calls[c].wallet}
  /\ calls' = [calls EXCEPT ![c] = Done(c, "OK")]
  /\ UNCHANGED <<sideVars, dbVars, claimNonces, pastDeadline, nextNonce, issued, consumed,
                 claimCount, adoptCount, adoptsWon>>

\* one of the awaited calls after the findOne rejects: the handler's catch
\* answers 500 and the calls after it are not made
OptOutFails(c) ==
  /\ \E l \in {"o_delete", "o_related", "o_insert", "o_del"} : At(c, l)
  /\ calls' = [calls EXCEPT ![c] = Done(c, "ERROR_500")]
  /\ UNCHANGED <<sideVars, dbVars, cacheVars, pastDeadline, nextNonce, histVars>>

OptOutStep(c) ==
  \/ OptOutFind(c) \/ OptOutDelete(c) \/ OptOutRelated(c) \/ OptOutInsert(c)
  \/ OptOutFinish(c)

\* ---------------------------------------- GET /api/v1/claim/check?wallet=
\* the opt-out list is read first and short-circuits
CheckArrive(c, w) ==
  /\ FreeSlot(c)
  /\ LET r == [IdleCall EXCEPT !.kind = "check", !.wallet = w, !.late = (w \in optedOut)]
     IN calls' = [calls EXCEPT ![c] =
          IF OptOutLookup(w) THEN [r EXCEPT !.pc = "done", !.resp = "OPTED_OUT"]
          ELSE [r EXCEPT !.pc = "c_agent"]]
  /\ UNCHANGED <<sideVars, dbVars, cacheVars, pastDeadline, nextNonce, histVars>>

\* Math.ceil(x / d) for a positive d
CeilDiv(x, d) == 0 - ((0 - x) \div d)

\* new Date(claimDeadline) - now in milliseconds: at most 0 once the deadline
\* has passed, above 0 before
DeadlineDeltas(a) ==
  IF a \in pastDeadline THEN {0, 0 - MS_PER_DAY} ELSE {1, MS_PER_DAY + 1}

DaysRemaining_Signed(delta) == CeilDiv(delta, MS_PER_DAY)

\* Math.max(0, Math.ceil((new Date(claimDeadline) - now) / (1000 * 60 * 60 * 24)))
DaysRemaining(delta) == Max(0, CeilDiv(delta, MS_PER_DAY))

\* findOne of the wallet's agent; eligible iff UNCLAIMED and the deadline is
\* ahead, otherwise the reason is the claimStatus; daysRemaining is null (-1)
\* unless the agent is UNCLAIMED
CheckAgent(c) ==
  /\ At(c, "c_agent")
  /\ LET a == AgentOfWallet(calls[c].wallet)
     IN IF a = 0 THEN calls' = [calls EXCEPT ![c] = Done(c, "NO_AGENT")]
        ELSE \E delta \in DeadlineDeltas(a) :
          calls' = [calls EXCEPT ![c] =
            [calls[c] EXCEPT
               !.pc = "c_log", !.found = a,
               !.daysRemaining = IF agents[a].claimStatus = "UNCLAIMED"
                                   THEN DaysRemaining(delta) ELSE 0 - 1,
               !.resp = IF agents[a].claimStatus = "UNCLAIMED" /\ delta > 0
                          THEN "ELIGIBLE" ELSE agents[a].claimStatus]]
  /\ UNCHANGED <<sideVars, dbVars, cacheVars, pastDeadline, nextNonce, histVars>>

\* the find of the recent posts, the CHECK log entry and the answer made of
\* what was read
CheckAnswer(c) ==
  /\ At(c, "c_log")
  /\ calls' = [calls EXCEPT ![c] = Goto(c, "done")]
  /\ UNCHANGED <<sideVars, dbVars, cacheVars, pastDeadline, nextNonce, histVars>>

\* ------------------------------------- POST /api/v1/orphans/:agentId/adopt
TierLimit(tier) ==
  CASE tier = "free" -> 0
    [] tier = "starter" -> 1
    [] tier = "pro" -> 3
    [] tier = "unlimited" -> 10
    [] OTHER -> 0

EffectiveMax(user) ==
  Max(TierLimit(user.subscriptionTier),
      IF user.authMethod = "wallet_claim" THEN 1 ELSE 0)

\* countDocuments({ userId: user._id, status: { $ne: 'DELETED' } })
OwnedAgents(u) ==
  Cardinality({a \in DOMAIN agents : agents[a].exists /\ agents[a].userId = u})

AdoptFilter_NoStatus(agent) == agent.exists

\* the filter of the findOneAndUpdate
AdoptFilter(agent) == agent.exists /\ agent.claimStatus = "ORPHANED"

AdoptArrive(c, u, a) ==
  /\ FreeSlot(c)
  /\ users[u].exists
  /\ LET r == [IdleCall EXCEPT !.kind = "adopt", !.user = u, !.agentId = a,
                               !.armed = AdoptFilter(agents[a])]
     IN calls' = [calls EXCEPT ![c] =
          IF OwnedAgents(u) >= EffectiveMax(users[u])
            THEN [r EXCEPT !.pc = "done", !.resp = "AGENT_LIMIT_REACHED"]
          ELSE [r EXCEPT !.pc = "a_update"]]
  /\ UNCHANGED <<sideVars, dbVars, cacheVars, pastDeadline, nextNonce, histVars>>

AdoptUpdate(c) ==
  /\ At(c, "a_update")
  /\ LET a == calls[c].agentId
         u == calls[c].user
     IN IF AdoptFilter(agents[a])
          THEN /\ agents' = [agents EXCEPT ![a].userId = u,
                                           ![a].claimStatus = "ADOPTED",
                                           ![a].adoptedBy = u]
               /\ adoptCount' = [adoptCount EXCEPT ![a] = Min(@ + 1, 2)]
               /\ adoptsWon' = [adoptsWon EXCEPT ![u] = Min(@ + 1, Cardinality(DOMAIN agents) + 1)]
               /\ calls' = [calls EXCEPT ![c] = Goto(c, "a_inc")]
          ELSE /\ calls' = [calls EXCEPT ![c] = Done(c, "NOT_ADOPTABLE")]
               /\ UNCHANGED <<sideVars, agents, adoptCount, adoptsWon>>
  /\ UNCHANGED <<sideVars, nextAgentId, users, optOuts, cacheVars, pastDeadline, nextNonce,
                 issued, consumed, optedOut, claimCount>>

\* the ADOPTED log entry, then User.updateOne({$inc: {agentCount: 1}})
AdoptInc(c) ==
  /\ At(c, "a_inc")
  /\ users' = [users EXCEPT ![calls[c].user].agentCount = Min(@ + 1, Cardinality(DOMAIN agents) + 2)]
  /\ calls' = [calls EXCEPT ![c] = Done(c, "OK")]
  /\ UNCHANGED <<sideVars, agents, nextAgentId, optOuts, cacheVars, pastDeadline, nextNonce, histVars>>

\* ---------------------------------------------- processOrphanTransitions
RECURSIVE SeqOfSet(_)
SeqOfSet(S) ==
  IF S = {} THEN <<>>
  ELSE LET m == CHOOSE x \in S : \A y \in S : x <= y
       IN <<m>> \o SeqOfSet(S \ {m})

\* find({claimStatus: 'UNCLAIMED', claimDeadline: {$lte: now}}).toArray()
ExpiredAgents ==
  {a \in DOMAIN agents : /\ agents[a].exists /\ agents[a].claimStatus = "UNCLAIMED"
                    /\ a \in pastDeadline}

\* what a scheduler run works on and writes
View == <<agents, watchlist, pastDeadline, orphanLog, watcherNotifs>>

OrphanCalls == {c \in DOMAIN calls : calls[c].kind = "orphan"}

\* the run starts in the state the last finished run left, that run having
\* seen no deadline pass, and no other run is in flight
InSuccession == lastRun.valid /\ lastRun.view = View /\ OrphanCalls = {}

\* the summary is returned
RunEnds(r, view) ==
  IF ~lastRun.on THEN lastRun
  ELSE IF r.snap = pastDeadline THEN [on |-> TRUE, valid |-> TRUE, view |-> view]
  ELSE NoRunYet

OrphanStart(c) ==
  /\ FreeSlot(c)
  /\ LET r == [IdleCall EXCEPT !.kind = "orphan", !.queue = SeqOfSet(ExpiredAgents),
                               !.snap = IF lastRun.on THEN pastDeadline ELSE {},
                               !.replay = InSuccession]
     IN IF ExpiredAgents = {}
          THEN /\ calls' = [calls EXCEPT ![c] = [r EXCEPT !.pc = "done", !.resp = "OK"]]
               /\ lastRun' = RunEnds(r, View)
          ELSE /\ calls' = [calls EXCEPT ![c] = [r EXCEPT !.pc = "s_update"]]
               /\ UNCHANGED lastRun
  /\ UNCHANGED <<moreVars, watchlist, orphanLog, watcherNotifs, dbVars, cacheVars, pastDeadline,
                 nextNonce, histVars>>

OrphanFilter_NoStatus(agent) == agent.exists

\* the filter of the updateOne
OrphanFilter(agent) == agent.exists /\ agent.claimStatus = "UNCLAIMED"

OrphanedAgent_Same(agent) == agent

\* $set: {'walletAgentData.claimStatus': 'ORPHANED', orphanedAt, updatedAt}
OrphanedAgent(agent) == [agent EXCEPT !.claimStatus = "ORPHANED", !.orphanedAt = TRUE]

\* the loop moves to the next agent of the list, or the run ends
NextAgent(r) ==
  IF Tail(r.queue) = <<>>
    THEN [r EXCEPT !.queue = <<>>, !.wq = <<>>, !.pc = "done", !.resp = "OK"]
    ELSE [r EXCEPT !.queue = Tail(r.queue), !.wq = <<>>, !.pc = "s_update"]

\* updateOne({_id, claimStatus: 'UNCLAIMED'}, {$set: {claimStatus: 'ORPHANED'}})
\* for the next agent of the list; modifiedCount tells whether it matched
OrphanUpdate(c) ==
  /\ At(c, "s_update")
  /\ LET a == Head(calls[c].queue)
         r == calls[c]
     IN IF OrphanFilter(agents[a])
          THEN /\ agents' = [agents EXCEPT ![a] = OrphanedAgent(agents[a])]
               /\ calls' = [calls EXCEPT ![c] =
                    [r EXCEPT !.pc = "s_log", !.transitioned = Min(@ + 1, Cardinality(DOMAIN agents))]]
               /\ UNCHANGED lastRun
          ELSE /\ UNCHANGED agents
               /\ calls' = [calls EXCEPT ![c] = NextAgent(r)]
               /\ lastRun' = IF NextAgent(r).pc = "done" THEN RunEnds(r, View) ELSE lastRun
  /\ UNCHANGED <<moreVars, watchlist, orphanLog, watcherNotifs, nextAgentId, users, optOuts,
                 cacheVars, pastDeadline, nextNonce, histVars>>

\* wallet_agent_claims.insertOne({action: 'ORPHANED', reason: 'CLAIM_DEADLINE_EXPIRED'})
OrphanLog(c) ==
  /\ At(c, "s_log")
  /\ orphanLog' = [orphanLog EXCEPT ![Head(calls[c].queue)] = Min(@ + 1, 2)]
  /\ calls' = [calls EXCEPT ![c] = Goto(c, "s_watch")]
  /\ UNCHANGED <<moreVars, watchlist, watcherNotifs, lastRun, dbVars, cacheVars, pastDeadline,
                 nextNonce, histVars>>

\* orphan_watchlist.find({agentId, notified: {$ne: true}}).toArray()
PendingWatchers(a) == {x.userId : x \in {y \in watchlist : y.agentId = a /\ ~y.notified}}

OrphanWatchers(c) ==
  /\ At(c, "s_watch")
  /\ LET r == calls[c]
         ws == PendingWatchers(Head(r.queue))
     IN IF ws = {}
          THEN /\ calls' = [calls EXCEPT ![c] = NextAgent(r)]
               /\ lastRun' = IF NextAgent(r).pc = "done" THEN RunEnds(r, View) ELSE lastRun
          ELSE /\ calls' = [calls EXCEPT ![c] = [r EXCEPT !.wq = SeqOfSet(ws), !.pc = "s_notify"]]
               /\ UNCHANGED lastRun
  /\ UNCHANGED <<moreVars, watchlist, orphanLog, watcherNotifs, dbVars, cacheVars, pastDeadline,
                 nextNonce, histVars>>

\* wallet_agent_notifications.insertOne({userId, agentId, type: 'AGENT_ORPHANED'})
OrphanNotify(c) ==
  /\ At(c, "s_notify")
  /\ watcherNotifs' =
       [watcherNotifs EXCEPT ![<<Head(calls[c].wq), Head(calls[c].queue)>>] = Min(@ + 1, 2)]
  /\ calls' = [calls EXCEPT ![c] = Goto(c, "s_flag")]
  /\ UNCHANGED <<moreVars, watchlist, orphanLog, lastRun, dbVars, cacheVars, pastDeadline,
                 nextNonce, histVars>>

\* orphan_watchlist.updateOne({_id: watcher._id}, {$set: {notified: true}}),
\* summary.notified++ and the published event; then the next watcher
OrphanFlag(c) ==
  /\ At(c, "s_flag")
  /\ LET r == calls[c]
         a == Head(r.queue)
         u == Head(r.wq)
         wl == {IF x.userId = u /\ x.agentId = a THEN [x EXCEPT !.notified = TRUE] ELSE x :
                  x \in watchlist}
         counted == [r EXCEPT !.notified = Min(@ + 1, Cardinality(DOMAIN users))]
         after == IF Tail(r.wq) = <<>> THEN NextAgent(counted)
                  ELSE [counted EXCEPT !.wq = Tail(r.wq), !.pc = "s_notify"]
     IN /\ watchlist' = wl
        /\ calls' = [calls EXCEPT ![c] = after]
        /\ lastRun' = IF after.pc = "done"
                        THEN RunEnds(r, <<agents, wl, pastDeadline, orphanLog, watcherNotifs>>)
                        ELSE lastRun
  /\ UNCHANGED <<moreVars, orphanLog, watcherNotifs, dbVars, cacheVars, pastDeadline, nextNonce,
                 histVars>>

\* the insertOne of the notification throws: the catch of the watcher loop
\* records the error and the loop goes on with the next watcher, the flag of
\* this one untouched
OrphanNotifyThrows(c) ==
  /\ At(c, "s_notify")
  /\ LET r == calls[c]
         after == IF Tail(r.wq) = <<>> THEN NextAgent(r)
                  ELSE [r EXCEPT !.wq = Tail(r.wq)]
     IN /\ calls' = [calls EXCEPT ![c] = after]
        /\ lastRun' = IF after.pc = "done" THEN RunEnds(r, View) ELSE lastRun
  /\ UNCHANGED <<moreVars, watchlist, orphanLog, watcherNotifs, dbVars, cacheVars, pastDeadline,
                 nextNonce, histVars>>

\* the process is terminated while a run waits for one of its writes
OrphanKilled(c) ==
  /\ Quiet
  /\ calls[c].kind = "orphan"
  /\ calls[c].pc \in {"s_update", "s_log", "s_watch", "s_notify", "s_flag"}
  /\ calls' = [calls EXCEPT ![c] = Done(c, "KILLED")]
  /\ UNCHANGED <<sideVars, dbVars, cacheVars, pastDeadline, nextNonce, histVars>>

\* --------------------------------------- POST /api/v1/orphans/:agentId/watch
\* Agent.findOne({_id, isWalletAgent}) and the claimStatus checks
WatchArrive(c, u, a) ==
  /\ FreeSlot(c)
  /\ users[u].exists
  /\ LET r == [IdleCall EXCEPT !.kind = "watch", !.user = u, !.agentId = a]
     IN calls' = [calls EXCEPT ![c] =
          IF ~agents[a].exists THEN [r EXCEPT !.pc = "done", !.resp = "AGENT_NOT_FOUND"]
          ELSE IF agents[a].claimStatus = "ORPHANED"
            THEN [r EXCEPT !.pc = "done", !.resp = "ALREADY_ORPHANED"]
          ELSE IF agents[a].claimStatus \in {"CLAIMED", "ADOPTED"}
            THEN [r EXCEPT !.pc = "done", !.resp = "ALREADY_CLAIMED"]
          ELSE [r EXCEPT !.pc = "w_upsert"]]
  /\ UNCHANGED <<sideVars, dbVars, cacheVars, pastDeadline, nextNonce, histVars>>

\* orphan_watchlist.updateOne({userId, agentId}, {$setOnInsert: {notified: false}},
\* {upsert: true})
WatchUpsert(c) ==
  /\ At(c, "w_upsert")
  /\ LET u == calls[c].user
         a == calls[c].agentId
         present == \E x \in watchlist : x.userId = u /\ x.agentId = a
     IN /\ watchlist' = IF present THEN watchlist
                        ELSE watchlist \cup {[userId |-> u, agentId |-> a, notified |-> FALSE]}
        /\ calls' = [calls EXCEPT ![c] =
             Done(c, IF present THEN "ALREADY_WATCHING" ELSE "OK")]
  /\ UNCHANGED <<moreVars, orphanLog, watcherNotifs, lastRun, dbVars, cacheVars, pastDeadline,
                 nextNonce, histVars>>

\* ------------------------------------------------- processNotifications
\* a day of the clock goes by
DayPasses ==
  /\ Quiet
  /\ today < MaxDay
  /\ today' = today + 1
  /\ UNCHANGED <<orphanVars, abuseVars, payoutVars, notifSent, notifFailed, notifyLastRun, deliveries, dbVars,
                 cacheVars, pastDeadline, nextNonce, calls, histVars>>

\* find({agentId, status: 'sent'}): the set of template keys already sent
getSentNotifications(agentId) ==
  {t \in Templates : notifSent[<<agentId, t>>] > 0}

\* find({isWalletAgent: true, claimStatus: 'UNCLAIMED'}).toArray(), with the
\* projected createdAt
UnclaimedAgents ==
  LET ids == SeqOfSet({a \in DOMAIN agents :
                         agents[a].exists /\ agents[a].claimStatus = "UNCLAIMED"})
  IN [i \in DOMAIN ids |-> [id |-> ids[i], createdAt |-> agents[ids[i]].createdAt]]

IsDue_Late(i, daysSinceCreation, sentTemplates) ==
  /\ daysSinceCreation > NOTIFICATION_SCHEDULE[i].daysAfterCreation
  /\ NOTIFICATION_SCHEDULE[i].template \notin sentTemplates

\* daysSinceCreation >= schedule.daysAfterCreation &&
\* !sentTemplates.has(schedule.template)
IsDue(i, daysSinceCreation, sentTemplates) ==
  /\ daysSinceCreation >= NOTIFICATION_SCHEDULE[i].daysAfterCreation
  /\ NOTIFICATION_SCHEDULE[i].template \notin sentTemplates

\* the first schedule entry from index i on that is due, 0 if there is none
NextDue(i, daysSinceCreation, sentTemplates) ==
  LET due == {j \in i..Len(NOTIFICATION_SCHEDULE) : IsDue(j, daysSinceCreation, sentTemplates)}
  IN IF due = {} THEN 0 ELSE CHOOSE j \in due : \A k \in due : j <= k

\* the entries of i..(j - 1) that take the else-if branch: skipped++
SkippedIn(i, j, sentTemplates) ==
  Cardinality({k \in i..(j - 1) : NOTIFICATION_SCHEDULE[k].template \in sentTemplates})

AtCeiling_Never(sent) == FALSE

\* sent >= MAX_SENDS_PER_HOUR
AtCeiling(sent) == sent >= MaxSends

\* The inner loop of run r from schedule index i up to its next await: the
\* entries that are not due are passed, a due one is dispatched unless the
\* ceiling breaks the loop; past the last entry the outer loop goes on.
Advance(r, i) ==
  LET j == NextDue(i, r.days, r.sentTemplates)
  IN IF j = 0
       THEN [r EXCEPT !.pc = "p_agent", !.idx = 0,
               !.skipped = @ + SkippedIn(i, Len(NOTIFICATION_SCHEDULE) + 1, r.sentTemplates)]
     ELSE IF AtCeiling(r.sent)
       THEN [r EXCEPT !.pc = "p_agent", !.idx = 0,
               !.skipped = @ + SkippedIn(i, j, r.sentTemplates)]
     ELSE [r EXCEPT !.pc = "p_send", !.idx = j,
               !.skipped = @ + SkippedIn(i, j, r.sentTemplates)]

\* the summary the run logs, caches and returns
Summary(r) ==
  [processed |-> r.found, sent |-> r.sent, failed |-> r.failed,
   skipped |-> r.skipped, set |-> TRUE]

\* new Date() and the find of the UNCLAIMED agents; with none the run returns
\* at once, before the summary is cached
NotifyStart(c) ==
  /\ FreeSlot(c)
  /\ LET r == [IdleCall EXCEPT !.kind = "notify", !.now = today,
                               !.queue = UnclaimedAgents,
                               !.found = Len(UnclaimedAgents)]
     IN calls' = [calls EXCEPT ![c] =
          IF r.queue = <<>> THEN [r EXCEPT !.pc = "done", !.resp = "NONE_PENDING"]
          ELSE [r EXCEPT !.pc = "p_agent"]]
  /\ UNCHANGED <<sideVars, dbVars, cacheVars, pastDeadline, nextNonce, histVars>>

\* One turn of the outer loop: the ceiling check, daysSinceCreation, the read
\* of the agent's sent templates and the inner loop up to its first dispatch.
\* After the last agent, or at the ceiling, the summary is cached for 7200 s.
NotifyAgent(c) ==
  /\ At(c, "p_agent")
  /\ LET r == calls[c]
     IN IF r.queue = <<>> \/ AtCeiling(r.sent)
          THEN /\ notifyLastRun' = Summary(r)
               /\ calls' = [calls EXCEPT ![c] = Done(c, "OK")]
          ELSE /\ calls' = [calls EXCEPT ![c] =
                    Advance([r EXCEPT !.agentId = Head(r.queue).id,
                                      !.days = r.now - Head(r.queue).createdAt,
                                      !.sentTemplates = getSentNotifications(Head(r.queue).id),
                                      !.dispatched = {}, !.tried = {},
                                      !.queue = Tail(r.queue)], 1)]
               /\ UNCHANGED notifyLastRun
  /\ UNCHANGED <<orphanVars, abuseVars, payoutVars, today, notifSent, notifFailed, deliveries, dbVars, cacheVars,
                 pastDeadline, nextNonce, histVars>>

\* `https://klik.cool/claim?wallet=${agent.walletAgentData.sourceWallet}`
claimUrl(agent) == <<"https://klik.cool/claim?wallet=", ToString(agent.sourceWallet)>>

\* agent.displayName || agent.name, agent.stats?.postCount || 0,
\* agent.stats?.tipsEarned || 0 and the claim deadline as month and day: the
\* agent documents kept here carry an id, no stats and a window of 30 days
displayName(id) == ToString(id)
postCount(id) == ToString(0)
tipsEarned(id) == ToString(0)
deadlineDate(agent) == ToString(agent.createdAt + 30)

\* getNotificationTemplate(template, agent): the text of the template with
\* the agent's name, stats, deadline and claim URL in it, as its pieces
getNotificationTemplate(template, id, agent) ==
  LET name == displayName(id)
      url == claimUrl(agent)
  IN CASE template = "AGENT_CREATED" ->
            <<"Your AI agent ", name, " is live on KLIK! It's already posting. Claim it: ">> \o url
       [] template = "WEEK_1_UPDATE" ->
            <<name, " has posted ", postCount(id), " times and earned ", tipsEarned(id),
              " KLIK tips! Claim before it's gone: ">> \o url
       [] template = "HALFWAY_WARNING" ->
            <<"15 days left to claim ", name, ". After that, anyone can adopt it: ">> \o url
       [] template = "NINE_DAYS_LEFT" ->
            <<"Only 9 days left! ", name, " will become an orphan on ", deadlineDate(agent),
              ": ">> \o url
       [] template = "FIVE_DAYS_LEFT" ->
            <<"5 DAYS LEFT! Claim ", name, " now or lose it forever: ">> \o url
       [] template = "TWO_DAYS_LEFT" ->
            <<"FINAL WARNING: 2 days to claim ", name, ". Don't lose your agent: ">> \o url
       [] template = "FINAL_DAY" ->
            <<"LAST CHANCE: ", name, " becomes an orphan TOMORROW. Claim now: ">> \o url
       [] OTHER -> <<"Claim your AI agent ", name, " on KLIK: ">> \o url

\* sendClaimMemo(walletAddress, agentId, claimUrl): the memo of the
\* transaction; with a wallet address of at most 44 characters it stays below
\* MAX_MEMO_LENGTH and is not cut
sendClaimMemo(walletAddress, agentId, url) ==
  <<"Your AI agent is live on KLIK! Claim it: ">> \o url

\* sendClaimMemo for the entry at idx: the memo is confirmed ("sent"), the
\* send fails and success: false comes back ("failed"), or making the memo
\* throws before anything is sent ("error": the catch branch, failed++)
NotifySend(c, outcome) ==
  /\ At(c, "p_send")
  /\ LET r == calls[c]
         k == <<r.agentId, NOTIFICATION_SCHEDULE[r.idx].template>>
     IN /\ deliveries' = IF outcome = "sent" /\ k \in DOMAIN deliveries
                           THEN [deliveries EXCEPT ![k] = Min(@ + 1, 2)]
                           ELSE deliveries
        /\ calls' = [calls EXCEPT ![c] =
             IF outcome = "error"
               THEN [r EXCEPT !.pc = "p_failed", !.failed = @ + 1, !.tried = @ \cup {k[2]}]
             ELSE [r EXCEPT !.pc = "p_insert", !.outcome = outcome,
                            !.dispatched = @ \cup {k[2]}, !.tried = @ \cup {k[2]},
                            !.dispatches = @ + 1,
                            !.messageText =
                               getNotificationTemplate(k[2], r.agentId, agents[r.agentId]),
                            !.memo =
                               sendClaimMemo(agents[r.agentId].sourceWallet, r.agentId,
                                             claimUrl(agents[r.agentId]))]]
  /\ UNCHANGED <<orphanVars, abuseVars, payoutVars, today, notifSent, notifFailed, notifyLastRun, dbVars, cacheVars,
                 pastDeadline, nextNonce, histVars>>

status_AlwaysSent(success) == "sent"

\* status: result.success ? 'sent' : 'failed'
status(success) == IF success THEN "sent" ELSE "failed"

\* insertOne({agentId, template, status: result.success ? 'sent' : 'failed'}),
\* then sent++ or failed++ and the rest of the inner loop
NotifyInsert(c) ==
  /\ At(c, "p_insert")
  /\ LET r == calls[c]
         k == <<r.agentId, NOTIFICATION_SCHEDULE[r.idx].template>>
         success == (r.outcome = "sent")
     IN /\ notifSent' = IF status(success) = "sent"
                          THEN [notifSent EXCEPT ![k] = Min(@ + 1, 2)]
                          ELSE notifSent
        /\ notifFailed' = IF status(success) = "failed"
                            THEN [notifFailed EXCEPT ![r.agentId] = 1]
                            ELSE notifFailed
        /\ calls' = [calls EXCEPT ![c] =
             IF success
               THEN Advance([r EXCEPT !.sent = @ + 1, !.outcome = "none",
                                      !.messageText = <<>>, !.memo = <<>>], r.idx + 1)
             ELSE Advance([r EXCEPT !.failed = @ + 1, !.outcome = "none",
                                    !.messageText = <<>>, !.memo = <<>>], r.idx + 1)]
  /\ UNCHANGED <<orphanVars, abuseVars, payoutVars, today, notifyLastRun, deliveries, dbVars, cacheVars,
                 pastDeadline, nextNonce, histVars>>

\* the insertOne after the dispatch throws: the catch branch, failed++
NotifyInsertThrows(c) ==
  /\ At(c, "p_insert")
  /\ calls' = [calls EXCEPT ![c] =
       [calls[c] EXCEPT !.pc = "p_failed", !.failed = @ + 1, !.outcome = "none",
                        !.messageText = <<>>, !.memo = <<>>]]
  /\ UNCHANGED <<sideVars, dbVars, cacheVars, pastDeadline, nextNonce, histVars>>

\* the catch branch's insertOne({status: 'failed'}), then the rest of the
\* inner loop
NotifyRecordFailure(c) ==
  /\ At(c, "p_failed")
  /\ notifFailed' = [notifFailed EXCEPT ![calls[c].agentId] = 1]
  /\ calls' = [calls EXCEPT ![c] = Advance(calls[c], calls[c].idx + 1)]
  /\ UNCHANGED <<orphanVars, abuseVars, payoutVars, today, notifSent, notifyLastRun, deliveries, dbVars, cacheVars,
                 pastDeadline, nextNonce, histVars>>

\* the process is terminated while a run waits for its dispatch or its insert
NotifyKilled(c) ==
  /\ Quiet
  /\ calls[c].pc \in {"p_send", "p_insert", "p_failed"}
  /\ calls' = [calls EXCEPT ![c] = Done(c, "KILLED")]
  /\ UNCHANGED <<sideVars, dbVars, cacheVars, pastDeadline, nextNonce, histVars>>

\* ----------------------------------------------------- detectClaimAbuse
\* the EX timer of the IP's attempt counter fires
IpCounterExpires ==
  /\ Quiet
  /\ ipCount > 0
  /\ ipCount' = 0
  /\ UNCHANGED <<orphanVars, notifyVars, payoutVars, failCount, expiry, dbVars, cacheVars, pastDeadline,
                 nextNonce, calls, histVars>>

\* the EX timer of a wallet's failed-attempt counter fires
FailCounterExpires(w) ==
  /\ Quiet
  /\ w \in DOMAIN failCount
  /\ failCount[w] > 0
  /\ failCount' = [failCount EXCEPT ![w] = 0]
  /\ UNCHANGED <<orphanVars, notifyVars, payoutVars, ipCount, expiry, dbVars, cacheVars, pastDeadline,
                 nextNonce, calls, histVars>>

\* ipCount > 100
IpBlocked(count) == count > IpLimit

WalletBlocked_Above(walletFailCount) == walletFailCount > WALLET_FAIL_LIMIT

\* walletFailCount && parseInt(walletFailCount, 10) >= 5
WalletBlocked(walletFailCount) == walletFailCount >= WALLET_FAIL_LIMIT

FailOpen_Closed(r) == [r EXCEPT !.pc = "done", !.resp = "ERROR_500", !.opFailed = TRUE]

\* catch (err) { next() }
FailOpen(r) == [r EXCEPT !.pc = "d_next", !.opFailed = TRUE]

DetectPcs == {"d_incr", "d_get"}

\* The middleware takes a request of one of the four routes: without a ready
\* cache it calls next() at once.
DetectArrive(c, req, ready) ==
  /\ FreeSlot(c)
  /\ req.kind \in {"nonce", "optnonce"} => nextNonce + PendingDraws \in DOMAIN issued
  /\ calls' = [calls EXCEPT ![c] =
       [req EXCEPT !.pc = IF ready THEN "d_incr" ELSE "d_next", !.ready = ready]]
  /\ UNCHANGED <<sideVars, dbVars, cacheVars, pastDeadline, nextNonce, histVars>>

\* redis.incr(ipKey), redis.expire(ipKey, 3600) when the result is 1, and the
\* IP cap
DetectIncr(c) ==
  /\ At(c, "d_incr")
  /\ ipCount' = Min(ipCount + 1, IpLimit + 1)
  /\ calls' = [calls EXCEPT ![c] =
       IF IpBlocked(ipCount + 1) THEN Done(c, "ABUSE_IP_BLOCKED") ELSE Goto(c, "d_get")]
  /\ UNCHANGED <<orphanVars, notifyVars, payoutVars, failCount, expiry, dbVars, cacheVars, pastDeadline,
                 nextNonce, histVars>>

\* redis.get(walletFailKey) and the wallet block, then next()
DetectGet(c) ==
  /\ At(c, "d_get")
  /\ calls' = [calls EXCEPT ![c] =
       IF WalletBlocked(failCount[calls[c].wallet]) THEN Done(c, "ABUSE_WALLET_BLOCKED")
       ELSE Goto(c, "d_next")]
  /\ UNCHANGED <<sideVars, dbVars, cacheVars, pastDeadline, nextNonce, histVars>>

\* a cache operation of the middleware throws
DetectThrows(c) ==
  /\ Quiet
  /\ calls[c].pc \in DetectPcs
  /\ calls' = [calls EXCEPT ![c] = FailOpen(calls[c])]
  /\ UNCHANGED <<sideVars, dbVars, cacheVars, pastDeadline, nextNonce, histVars>>

\* what the middleware hands on to the handler
Entered(r, call) ==
  [call EXCEPT !.ready = r.ready, !.opFailed = r.opFailed, !.entered = TRUE]

\* next(): the route's handler runs up to its first answer or await
EnterNonce(c) ==
  /\ At(c, "d_next")
  /\ calls[c].kind = "nonce"
  /\ NonceFindFrom(c, Entered(calls[c], NewNonceCall(calls[c].wallet, calls[c].agentId)))

EnterVerify(c) ==
  /\ At(c, "d_next")
  /\ calls[c].kind = "verify"
  /\ LET r == calls[c]
         call == Entered(r, NewVerifyCall(r.wallet, r.agentId, r.sig, r.nonce))
     IN /\ calls' = [calls EXCEPT ![c] = VerifyReadResult(call)]
        /\ failCount' = FailuresAfter(call)
  /\ UNCHANGED <<orphanVars, notifyVars, payoutVars, ipCount, expiry, dbVars, cacheVars, pastDeadline, nextNonce,
                 histVars>>

EnterOptNonce(c) ==
  /\ At(c, "d_next")
  /\ calls[c].kind = "optnonce"
  /\ calls' = [calls EXCEPT ![c] =
       OptNonceLookupResult(Entered(calls[c], NewOptNonceCall(calls[c].wallet)))]
  /\ UNCHANGED <<sideVars, dbVars, cacheVars, pastDeadline, nextNonce, histVars>>

EnterOptOut(c) ==
  /\ At(c, "d_next")
  /\ calls[c].kind = "optout"
  /\ LET r == calls[c]
     IN calls' = [calls EXCEPT ![c] =
          OptOutReadResult(Entered(r, NewOptOutCall(r.wallet, r.sig, r.nonce)))]
  /\ UNCHANGED <<sideVars, dbVars, cacheVars, pastDeadline, nextNonce, histVars>>

\* the nonces handed out for claims and for opt-outs
ClaimNonceSet == {n \in IssuedNonces : issued[n].type = "claim"}
OptOutNonceSet == {n \in IssuedNonces : issued[n].type = "optout"}

\* a verify request of the wallet's owner for the pair a nonce was issued for
OwnerVerifyArrive(c, n) ==
  VerifyArrive(c, issued[n].wallet, issued[n].agentId, OwnerSignature(n), n)

\* an opt-out request of the wallet's owner
OwnerOptOutArrive(c, n) ==
  OptOutArrive(c, issued[n].wallet, OwnerSignature(n), n)

\* a verify request for the pair of nonce n, made while n is the pair's stored
\* nonce and the subject is UNCLAIMED, with the owner's signature
StartArmedVerify(c, n) ==
  /\ NewVerifyCall(issued[n].wallet, issued[n].agentId, OwnerSignature(n), n).armed
  /\ StartVerify(c, issued[n].wallet, issued[n].agentId, OwnerSignature(n), n)

\* Racing claims: every verify request carries the outstanding nonce of its
\* pair and the owner's signature over the stored message.
NextRace ==
  \/ \E c \in CallIds : Retire(c)
  \/ \E w \in Wallets : CreateAgent(w)
  \/ \E c \in CallIds, w \in Wallets, a \in AgentIds : NonceArrive(c, w, a)
  \/ \E c \in CallIds : NonceSet(c)
  \/ \E c \in CallIds, n \in IssuedNonces : StartArmedVerify(c, n)
  \/ \E c \in CallIds : VerifyRead(c)
  \/ \E c \in CallIds : VerifyStep(c)

SpecRace == Init /\ [][NextRace]_vars

\* The lifecycle: every operation that changes a subject, requests signed by
\* the wallets' owners, subjects created for the wallets of LifeWallets.
LifeWallets == {w \in Wallets : w < NumWallets}

Next ==
  \/ \E c \in CallIds : Retire(c)
  \/ \E w \in LifeWallets : CreateAgent(w)
  \/ \E a \in AgentIds : DeadlinePasses(a)
  \/ \E c \in CallIds, w \in Wallets, a \in AgentIds : NonceArrive(c, w, a)
  \/ \E c \in CallIds : NonceSet(c)
  \/ \E c \in CallIds, n \in ClaimNonceSet : OwnerVerifyArrive(c, n)
  \/ \E c \in CallIds : VerifyStep(c)
  \/ \E c \in CallIds, w \in Wallets : OptNonceArrive(c, w)
  \/ \E c \in CallIds : OptNonceAgent(c)
  \/ \E c \in CallIds : OptNonceSet(c)
  \/ \E c \in CallIds, n \in OptOutNonceSet : OwnerOptOutArrive(c, n)
  \/ \E c \in CallIds : OptOutStep(c)
  \/ \E c \in CallIds : OrphanStart(c)
  \/ \E c \in CallIds : OrphanUpdate(c)
  \/ \E c \in CallIds : OrphanLog(c)
  \/ \E c \in CallIds : OrphanWatchers(c)
  \/ \E c \in CallIds, u \in UserIds, a \in AgentIds : AdoptArrive(c, u, a)
  \/ \E c \in CallIds : AdoptUpdate(c)
  \/ \E c \in CallIds : AdoptInc(c)

Spec == Init /\ [][Next]_vars

\* Opting out, next to eligibility checks and claims of the same wallets.
NextOptOut ==
  \/ \E c \in CallIds : Retire(c)
  \/ \E w \in Wallets : CreateAgent(w)
  \/ \E w \in Wallets : OptOutNonceExpires(w)
  \/ \E c \in CallIds, w \in Wallets, a \in AgentIds : NonceArrive(c, w, a)
  \/ \E c \in CallIds : NonceSet(c)
  \/ \E c \in CallIds, n \in ClaimNonceSet : OwnerVerifyArrive(c, n)
  \/ \E c \in CallIds : VerifyStep(c)
  \/ \E c \in CallIds, w \in Wallets : OptNonceArrive(c, w)
  \/ \E c \in CallIds : OptNonceAgent(c)
  \/ \E c \in CallIds : OptNonceSet(c)
  \/ \E c \in CallIds, n \in OptOutNonceSet : OwnerOptOutArrive(c, n)
  \/ \E c \in CallIds : OptOutStep(c)
  \/ \E c \in CallIds, w \in Wallets : CheckArrive(c, w)
  \/ \E c \in CallIds : CheckAgent(c)
  \/ \E c \in CallIds : CheckAnswer(c)

SpecOptOut == Init /\ [][NextOptOut]_vars

\* Expiry and adoption: the scheduler and adopt calls of every user.
NextAdopt ==
  \/ \E c \in CallIds : Retire(c)
  \/ \E w \in Wallets : CreateAgent(w)
  \/ \E a \in AgentIds : DeadlinePasses(a)
  \/ \E c \in CallIds : OrphanStart(c)
  \/ \E c \in CallIds : OrphanUpdate(c)
  \/ \E c \in CallIds : OrphanLog(c)
  \/ \E c \in CallIds : OrphanWatchers(c)
  \/ \E c \in CallIds, u \in UserIds, a \in AgentIds : AdoptArrive(c, u, a)
  \/ \E c \in CallIds : AdoptUpdate(c)
  \/ \E c \in CallIds : AdoptInc(c)

SpecAdopt == Init /\ [][NextAdopt]_vars

\* The scheduler next to the watch calls that register who is to be told.
NextOrphan ==
  \/ \E c \in CallIds : Retire(c)
  \/ \E w \in Wallets : CreateAgent(w)
  \/ \E a \in AgentIds : DeadlinePasses(a)
  \/ \E c \in CallIds, u \in ExtUsers, a \in AgentIds : WatchArrive(c, u, a)
  \/ \E c \in CallIds : WatchUpsert(c)
  \/ \E c \in CallIds : OrphanStart(c)
  \/ \E c \in CallIds : OrphanUpdate(c)
  \/ \E c \in CallIds : OrphanLog(c)
  \/ \E c \in CallIds : OrphanWatchers(c)
  \/ \E c \in CallIds : OrphanNotify(c)
  \/ \E c \in CallIds : OrphanFlag(c)

InitOrphan ==
  InitStore(AgentIds, CallIds, Nonces) /\ lastRun = NoRunYet
    /\ deliveries = DeliveriesUntracked /\ failCount = FailuresUntracked
    /\ expiry = ExpiryUntracked /\ klikBalance = BalancesUntracked

SpecOrphan == InitOrphan /\ [][NextOrphan]_vars

\* The quota race: more subjects and more concurrent adopt calls than a
\* starter plan has slots.
QuotaCallIds == 1..QuotaCalls
QuotaAgentIds == 1..QuotaAgents

\* the users whose plan has a single slot
QuotaUsers == {u \in ExtUsers : ExtUser(u).subscriptionTier = "starter"}

InitQuota == InitWith(QuotaAgentIds, QuotaCallIds, {})

\* the agents are created for the wallets in turn
CreateNextAgent(w) == w = nextAgentId /\ CreateAgent(w)

\* the claim window is the same for all: deadlines pass in the order of creation
DeadlineInTurn(a) == (\A b \in 1..(a - 1) : b \in pastDeadline) /\ DeadlinePasses(a)

NextQuota ==
  \/ \E c \in QuotaCallIds : Retire(c)
  \/ \E w \in QuotaAgentIds : CreateNextAgent(w)
  \/ \E a \in QuotaAgentIds : DeadlineInTurn(a)
  \/ \E c \in QuotaCallIds : OrphanStart(c)
  \/ \E c \in QuotaCallIds : OrphanUpdate(c)
  \/ \E c \in QuotaCallIds : OrphanLog(c)
  \/ \E c \in QuotaCallIds : OrphanWatchers(c)
  \/ \E c \in QuotaCallIds, u \in QuotaUsers, a \in QuotaAgentIds : AdoptArrive(c, u, a)
  \/ \E c \in QuotaCallIds : AdoptUpdate(c)
  \/ \E c \in QuotaCallIds : AdoptInc(c)

SpecQuota == InitQuota /\ [][NextQuota]_vars

\* The notification runs of a single subject over its claim window, one run
\* at a time.
NotifyAgentIds == 1..NotifyAgents
NotifyCallIds == 1..NotifyCalls
Outcomes == {"sent", "failed", "error"}

InitNotify == InitWith(NotifyAgentIds, NotifyCallIds, {})

\* the subjects are created in the first days of the clock
CreateEarly(w) == today <= LastCreationDay /\ CreateNextAgent(w)

NextNotify ==
  \/ \E c \in NotifyCallIds : Retire(c)
  \/ \E w \in NotifyAgentIds : CreateEarly(w)
  \/ DayPasses
  \/ \E c \in NotifyCallIds : NotifyStart(c)
  \/ \E c \in NotifyCallIds : NotifyAgent(c)
  \/ \E c \in NotifyCallIds, o \in Outcomes : NotifySend(c, o)
  \/ \E c \in NotifyCallIds : NotifyInsert(c)
  \/ \E c \in NotifyCallIds : NotifyRecordFailure(c)

SpecNotify == InitNotify /\ [][NextNotify]_vars

\* Overlapping and interrupted notification runs in the first days of a
\* subject, with the history of confirmed memos kept.
InitNotifyRace ==
  InitStore(NotifyAgentIds, CallIds, {}) /\ lastRun = RunsUntracked
    /\ deliveries = NoDeliveries(NotifyAgentIds) /\ failCount = FailuresUntracked
    /\ expiry = ExpiryUntracked /\ klikBalance = BalancesUntracked

\* the first days of the clock
EarlyDayPasses == today < RaceDays /\ DayPasses

NextNotifyRace ==
  \/ \E c \in CallIds : Retire(c)
  \/ \E w \in NotifyAgentIds : CreateEarly(w)
  \/ EarlyDayPasses
  \/ \E c \in CallIds : NotifyStart(c)
  \/ \E c \in CallIds : NotifyAgent(c)
  \/ \E c \in CallIds, o \in Outcomes : NotifySend(c, o)
  \/ \E c \in CallIds : NotifyInsert(c)
  \/ \E c \in CallIds : NotifyInsertThrows(c)
  \/ \E c \in CallIds : NotifyRecordFailure(c)
  \/ \E c \in CallIds : NotifyKilled(c)

SpecNotifyRace == InitNotifyRace /\ [][NextNotifyRace]_vars

\* The abuse detector in front of the four routes: requests of one IP for the
\* wallets, with the owner's signature or a malformed one, the cache ready
\* or not.
AbuseCallIds == 1..AbuseCalls

InitAbuse ==
  InitStore(AgentIds, AbuseCallIds, Nonces) /\ lastRun = RunsUntracked
    /\ deliveries = DeliveriesUntracked /\ failCount = NoFailures(LifeWallets)
    /\ expiry = ExpiryUntracked /\ klikBalance = BalancesUntracked

\* the requests a client can make of the four routes
AbuseRequests ==
  {NewNonceCall(w, a) : w \in LifeWallets, a \in {1}}
  \cup {NewOptNonceCall(w) : w \in LifeWallets}
  \cup UNION {{[IdleCall EXCEPT !.kind = "verify", !.wallet = issued[n].wallet,
                               !.agentId = issued[n].agentId, !.sig = sig, !.nonce = n] :
                  sig \in {BadSig, OwnerSignature(n)}} : n \in ClaimNonceSet}
  \cup {[IdleCall EXCEPT !.kind = "verify", !.wallet = w, !.agentId = 1] : w \in LifeWallets}
  \cup UNION {{NewOptOutCall(issued[n].wallet, sig, n) :
                  sig \in {BadSig, OwnerSignature(n)}} : n \in OptOutNonceSet}

NextAbuse ==
  \/ \E c \in AbuseCallIds : Retire(c)
  \/ \E w \in LifeWallets : CreateAgent(w)
  \/ IpCounterExpires
  \/ \E w \in LifeWallets : FailCounterExpires(w)
  \/ \E c \in AbuseCallIds, req \in AbuseRequests, ready \in BOOLEAN : DetectArrive(c, req, ready)
  \/ \E c \in AbuseCallIds : DetectIncr(c)
  \/ \E c \in AbuseCallIds : DetectGet(c)
  \/ \E c \in AbuseCallIds : DetectThrows(c)
  \/ \E c \in AbuseCallIds : EnterNonce(c)
  \/ \E c \in AbuseCallIds : EnterVerify(c)
  \/ \E c \in AbuseCallIds : EnterOptNonce(c)
  \/ \E c \in AbuseCallIds : EnterOptOut(c)
  \/ \E c \in AbuseCallIds : NonceSet(c)
  \/ \E c \in AbuseCallIds : VerifyStep(c)
  \/ \E c \in AbuseCallIds : OptNonceAgent(c)
  \/ \E c \in AbuseCallIds : OptNonceSet(c)
  \/ \E c \in AbuseCallIds : OptOutStep(c)

SpecAbuse == InitAbuse /\ [][NextAbuse]_vars

\* Eligibility checks next to the expiry of the claim window and the
\* scheduler that acts on it.
NextCheck ==
  \/ \E c \in CallIds : Retire(c)
  \/ \E w \in Wallets : CreateAgent(w)
  \/ \E a \in AgentIds : DeadlinePasses(a)
  \/ \E c \in CallIds, w \in Wallets : CheckArrive(c, w)
  \/ \E c \in CallIds : CheckAgent(c)
  \/ \E c \in CallIds : CheckAnswer(c)
  \/ \E c \in CallIds : OrphanStart(c)
  \/ \E c \in CallIds : OrphanUpdate(c)
  \/ \E c \in CallIds : OrphanLog(c)
  \/ \E c \in CallIds : OrphanWatchers(c)

SpecCheck == Init /\ [][NextCheck]_vars

\* Claims and opt-outs one after the other: a single request at a time,
\* signed by the wallets' owners.
RankCallIds == {1}
RankNonces == 1..MaxRankNonce

InitRank == InitWith(AgentIds, RankCallIds, RankNonces)

NextRank ==
  \/ \E c \in RankCallIds : Retire(c)
  \/ \E w \in Wallets : CreateNextAgent(w)
  \/ \E c \in RankCallIds, w \in Wallets, a \in AgentIds : NonceArrive(c, w, a)
  \/ \E c \in RankCallIds : NonceSet(c)
  \/ \E c \in RankCallIds, n \in ClaimNonceSet : OwnerVerifyArrive(c, n)
  \/ \E c \in RankCallIds : VerifyStep(c)
  \/ \E c \in RankCallIds, w \in Wallets : OptNonceArrive(c, w)
  \/ \E c \in RankCallIds : OptNonceAgent(c)
  \/ \E c \in RankCallIds : OptNonceSet(c)
  \/ \E c \in RankCallIds, n \in OptOutNonceSet : OwnerOptOutArrive(c, n)
  \/ \E c \in RankCallIds : OptOutStep(c)

SpecRank == InitRank /\ [][NextRank]_vars

\* ------------------------------------------------------------------ claims
VerifyCalls == {c \in CallIds : calls[c].kind = "verify"}
Answered(c) == calls[c].pc = "done"
CurrentNonce(c) == claimNonces[<<calls[c].agentId, calls[c].wallet>>].nonce

\* C1 as stated: of the verify calls made for an UNCLAIMED subject with its
\* outstanding nonce and a valid signature, at most one performs the
\* UNCLAIMED -> CLAIMED transition and every other one, made with the nonce
\* the winner used, answers AlreadyClaimed.
C1_OthersAlreadyClaimed ==
  /\ \A a \in AgentIds : claimCount[a] <= 1
  /\ \A c \in VerifyCalls :
       (/\ calls[c].armed /\ Answered(c)
        /\ agents[calls[c].agentId].claimNonce = calls[c].nonce)
         => calls[c].resp \in {"OK", "ALREADY_CLAIMED"}

\* C1 amended: at most one call performs the UNCLAIMED -> CLAIMED transition;
\* every other call never succeeds: it answers AlreadyClaimed, which happens
\* only once the subject is CLAIMED, or, when it reads the cache after the
\* nonce was deleted or replaced, NonceExpired or NonceMismatch.
C1_AtMostOneClaim ==
  /\ \A a \in AgentIds : claimCount[a] <= 1
  /\ \A c \in VerifyCalls :
       /\ (calls[c].armed /\ Answered(c)) =>
            calls[c].resp \in {"OK", "ALREADY_CLAIMED", "NONCE_EXPIRED", "NONCE_MISMATCH"}
       /\ (Answered(c) /\ calls[c].resp \in {"NONCE_EXPIRED", "NONCE_MISMATCH"}) =>
            CurrentNonce(c) # calls[c].nonce
       /\ (calls[c].pc = "v_conflict" \/ calls[c].resp = "ALREADY_CLAIMED") =>
            /\ claimCount[calls[c].agentId] = 1
            /\ agents[calls[c].agentId].claimStatus = "CLAIMED"

\* two armed calls raced and the loser got AlreadyClaimed
C1_Witness ==
  \E c \in VerifyCalls : calls[c].armed /\ calls[c].resp = "ALREADY_CLAIMED"

\* C3: once a verifyClaim has succeeded with nonce n for (subject, wallet), a
\* later verifyClaim with the same subject, wallet and nonce is rejected at the
\* nonce check with NonceExpired or NonceMismatch and goes no further.
C3_NonceSingleUse ==
  \A c \in VerifyCalls :
    calls[c].replay =>
      /\ Answered(c)
      /\ calls[c].resp \in {"NONCE_EXPIRED", "NONCE_MISMATCH"}

C3_Witness ==
  \E c \in VerifyCalls :
    /\ calls[c].replay /\ calls[c].resp = "NONCE_EXPIRED"
    /\ calls[c].sig = OwnerSignature(calls[c].nonce)

\* C4: a nonce issued for (A, W) passes the nonce check of verifyClaim only
\* when presented with exactly A and W; with any other subject or wallet the
\* call is rejected at the nonce check and never reaches the conditional update.
C4_NonceBoundToPair ==
  \A c \in VerifyCalls :
    (issued[calls[c].nonce].agentId # calls[c].agentId
       \/ issued[calls[c].nonce].wallet # calls[c].wallet) =>
      /\ Answered(c)
      /\ calls[c].resp \in {"NONCE_EXPIRED", "NONCE_MISMATCH"}

\* the nonce of one pair was presented for another pair that has its own nonce
C4_Witness ==
  \E c \in VerifyCalls :
    /\ issued[calls[c].nonce].agentId # calls[c].agentId
    /\ calls[c].sig.signer = calls[c].wallet
    /\ calls[c].resp = "NONCE_MISMATCH"

\* C5: a verifyClaim call gets past the signature check, the only way to the
\* CLAIMED transition, only with a signature made by the wallet's key over
\* exactly the message stored with the nonce of its pair; with the current
\* nonce and any other signature the answer is InvalidSignature.
C5_ExactMessageSigned ==
  \A c \in VerifyCalls :
    LET r == calls[c]
        exact == /\ r.sig.signer = r.wallet
                 /\ r.sig.msg = issued[r.nonce]
                 /\ issued[r.nonce] =
                      generateClaimMessage(r.agentId, r.wallet, r.nonce, issued[r.nonce].timestamp)
    IN /\ (~Answered(c) \/ r.resp \in {"OK", "ALREADY_CLAIMED"}) => exact
       /\ (Answered(c) /\ ~exact /\ CurrentNonce(c) = r.nonce) =>
            r.resp = "INVALID_SIGNATURE"
       /\ r.resp = "INVALID_SIGNATURE" => ~exact

\* the wallet's own signature over the message of an earlier, overwritten
\* nonce of the same pair is refused and the subject stays UNCLAIMED
C5_Witness ==
  \E c \in VerifyCalls :
    LET r == calls[c]
    IN /\ r.resp = "INVALID_SIGNATURE"
       /\ r.sig.signer = r.wallet
       /\ r.sig.msg.agentId = r.agentId /\ r.sig.msg.wallet = r.wallet
       /\ r.sig.msg.nonce # r.nonce
       /\ agents[r.agentId].claimStatus = "UNCLAIMED"


AdoptCalls == {c \in CallIds : calls[c].kind = "adopt"}

\* C2: a subject's claimStatus only ever changes UNCLAIMED to CLAIMED,
\* UNCLAIMED to ORPHANED or ORPHANED to ADOPTED, whatever the interleaving of
\* verifyClaim, adopt, verifyOptOut and scheduler runs; so a subject that has
\* left UNCLAIMED is never UNCLAIMED again.
C2_StatusStep ==
  \A a \in AgentIds :
    (agents[a].exists /\ agents'[a].exists
       /\ agents'[a].claimStatus # agents[a].claimStatus)
    => <<agents[a].claimStatus, agents'[a].claimStatus>> \in
         {<<"UNCLAIMED", "CLAIMED">>, <<"UNCLAIMED", "ORPHANED">>,
          <<"ORPHANED", "ADOPTED">>}

C2_OnlyForward == [][C2_StatusStep]_vars

\* a verifyClaim with a live nonce and the owner's signature is turned down
\* for a subject that has been orphaned and adopted in the meantime
C2_Witness ==
  \E c \in VerifyCalls :
    /\ calls[c].resp = "ALREADY_CLAIMED"
    /\ agents[calls[c].agentId].exists
    /\ agents[calls[c].agentId].claimStatus = "ADOPTED"

\* C6: once verifyOptOut has succeeded for a wallet, every later
\* checkEligibility of that wallet answers OPTED_OUT, whatever subject exists
\* or is created for the wallet afterwards.
C6_OptOutIsPermanent ==
  \A c \in CallIds :
    (calls[c].kind = "check" /\ calls[c].late)
    => (calls[c].pc = "done" /\ calls[c].resp = "OPTED_OUT")

\* a check after the opt-out, with a new subject of the wallet in the store
C6_Witness ==
  \E c \in CallIds :
    /\ calls[c].kind = "check" /\ calls[c].late
    /\ calls[c].resp = "OPTED_OUT"
    /\ AgentOfWallet(calls[c].wallet) # 0

\* C7: once an opt-out record exists for a wallet, no issueClaimNonce and no
\* verifyClaim call for that wallet succeeds.
C7_OptOutBlocksClaims ==
  \A c \in CallIds :
    (calls[c].kind \in {"nonce", "verify"} /\ calls[c].late)
    => calls[c].resp # "OK"

\* C8: verifyOptOut deletes a subject only when its claimStatus is UNCLAIMED
\* or CLAIMED; an ORPHANED or ADOPTED subject is never deleted.
C8_DeleteStep ==
  \A a \in AgentIds :
    (agents[a].exists /\ ~agents'[a].exists)
    => agents[a].claimStatus \in {"UNCLAIMED", "CLAIMED"}

C8_DeletesOnlyOwnSubjects == [][C8_DeleteStep]_vars

\* C9: issueOptOutNonce for a wallet that has no subject (and has not opted
\* out) succeeds.
C9_PreemptiveOptOut ==
  \A c \in CallIds :
    (/\ calls[c].kind = "optnonce" /\ calls[c].pc = "done"
     /\ AgentOfWallet(calls[c].wallet) = 0
     /\ optOuts[calls[c].wallet] = 0)
    => calls[c].resp = "OK"

\* what a user's agentCount started from
BaseCount(u) == IF users[u].authMethod = "wallet_claim" THEN 1 ELSE 0

PendingInc(u) ==
  Cardinality({c \in AdoptCalls : calls[c].user = u /\ calls[c].pc = "a_inc"})

C10_State ==
  /\ \A a \in AgentIds : adoptCount[a] <= 1
  /\ \A a \in AgentIds : agents[a].exists =>
       IF agents[a].claimStatus = "ADOPTED"
         THEN /\ adoptCount[a] = 1
              /\ agents[a].adoptedBy # 0
              /\ agents[a].userId = agents[a].adoptedBy
         ELSE adoptCount[a] = 0 /\ agents[a].adoptedBy = 0
  /\ \A u \in UserIds : users[u].exists =>
       users[u].agentCount + PendingInc(u) = BaseCount(u) + adoptsWon[u]

C10_AdoptStep ==
  \A c \in AdoptCalls :
    (calls[c].pc = "a_update" /\ calls'[c].pc # "a_update") =>
      LET a == calls[c].agentId
      IN /\ users' = users
         /\ \A b \in AgentIds \ {a} : agents'[b] = agents[b]
         /\ IF agents[a].exists /\ agents[a].claimStatus = "ORPHANED"
              THEN /\ agents'[a].claimStatus = "ADOPTED"
                   /\ agents'[a].userId = calls[c].user
                   /\ agents'[a].adoptedBy = calls[c].user
                   /\ calls'[c].pc = "a_inc"
              ELSE /\ agents'[a] = agents[a]
                   /\ calls'[c].resp = "NOT_ADOPTABLE"

C11_QuotaPlusOne ==
  \A u \in DOMAIN users :
    users[u].exists => OwnedAgents(u) <= EffectiveMax(users[u]) + 1

\* C12: a scheduler run that directly follows another one, nothing having
\* happened in between, finds nothing to do: it transitions no subject,
\* notifies no watcher and writes no log entry and no notification; and the
\* run before it has transitioned every UNCLAIMED subject past its deadline,
\* each exactly once.
C12_SecondRunIdle ==
  /\ \A c \in OrphanCalls :
       calls[c].replay =>
         /\ calls[c].pc = "done"
         /\ calls[c].transitioned = 0 /\ calls[c].notified = 0
         /\ lastRun.view = View
  /\ (lastRun.valid /\ lastRun.view = View) => ExpiredAgents = {}
  /\ \A a \in DOMAIN agents : orphanLog[a] <= 1

\* a second run in succession, after a run that transitioned a subject and
\* notified its watcher
C12_Witness ==
  \E c \in OrphanCalls :
    /\ calls[c].replay
    /\ \E a \in DOMAIN agents : orphanLog[a] = 1
    /\ \E x \in DOMAIN watcherNotifs : watcherNotifs[x] = 1
    /\ \E x \in watchlist : x.notified

\* the notification runs in flight
NotifyRuns == {c \in DOMAIN calls : calls[c].kind = "notify" /\ calls[c].agentId # 0}

\* the templates of the schedule entries whose day offset is at most days and
\* that are not in sentTemplates
DueUnsent(days, sentTemplates) ==
  {t \in Templates \ sentTemplates :
     \E i \in DOMAIN NOTIFICATION_SCHEDULE :
       /\ NOTIFICATION_SCHEDULE[i].template = t
       /\ NOTIFICATION_SCHEDULE[i].daysAfterCreation <= days}

\* the run of slot c is through with its current subject, every dispatch of
\* the run succeeded and the run stayed below the ceiling
CleanPass(c) ==
  /\ calls[c].pc \in {"p_agent", "done"}
  /\ calls[c].failed = 0
  /\ calls[c].sent < MaxSends

SentBefore29 ==
  {"AGENT_CREATED", "WEEK_1_UPDATE", "HALFWAY_WARNING", "NINE_DAYS_LEFT",
   "FIVE_DAYS_LEFT", "TWO_DAYS_LEFT"}

C14_AtMostOneDelivery ==
  \A k \in DOMAIN deliveries : deliveries[k] <= 1

\* C15: a run makes no more dispatches than the ceiling
C15_DispatchesWithinCeiling ==
  \A c \in DOMAIN calls : calls[c].dispatches <= MaxSends

AbuseAnswers == {"ABUSE_IP_BLOCKED", "ABUSE_WALLET_BLOCKED"}

\* the request of slot c leaves the middleware's wallet check without a cache
\* operation having thrown, while its wallet's counter is at the limit or above
C16_LeavesCheckBlocked(c) ==
  /\ calls[c].pc = "d_get"
  /\ calls'[c].pc # "d_get"
  /\ ~calls'[c].opFailed
  /\ failCount[calls[c].wallet] >= WALLET_FAIL_LIMIT

\* C16: a request of any of the four routes whose wallet has 5 or more recorded
\* failures when the abuse detector reads the counter is answered
\* ABUSE_WALLET_BLOCKED and its handler is not entered; no handler is entered
\* by a request that was answered by the detector.
C16_BlockedWalletIsRejected ==
  [][\A c \in DOMAIN calls :
       /\ C16_LeavesCheckBlocked(c) =>
            /\ calls'[c].pc = "done"
            /\ calls'[c].resp = "ABUSE_WALLET_BLOCKED"
            /\ ~calls'[c].entered
       /\ calls[c].resp \in AbuseAnswers => (~calls[c].entered /\ ~calls'[c].entered)]_vars

C16_Witness ==
  \E c \in DOMAIN calls :
    /\ calls[c].kind = "optout"
    /\ calls[c].resp = "ABUSE_WALLET_BLOCKED"
    /\ ~calls[c].entered
    /\ failCount[calls[c].wallet] >= WALLET_FAIL_LIMIT

\* C17: every request answered with a failed signature check has recorded a
\* failed attempt for its wallet
C17_SignatureFailureRecorded ==
  \A c \in DOMAIN calls :
    (calls[c].pc = "done" /\ calls[c].resp = "INVALID_SIGNATURE") => calls[c].recorded

\* C18: a request that met a cache that was not ready, or a cache operation
\* that threw, in the abuse detector is not answered by the detector: it is
\* handed to its route's handler.
C18_FailsOpen ==
  \A c \in DOMAIN calls :
    (calls[c].kind # "idle" /\ (calls[c].opFailed \/ ~calls[c].ready)) =>
      /\ calls[c].resp \notin AbuseAnswers
      /\ calls[c].pc = "d_next" \/ calls[c].entered

C18_Witness ==
  \E c \in DOMAIN calls :
    /\ calls[c].opFailed
    /\ calls[c].entered
    /\ failCount[calls[c].wallet] >= WALLET_FAIL_LIMIT

\* the request of slot c reads the agent of its wallet in this step
C19_ReadsAgent(c) ==
  /\ calls[c].kind = "check"
  /\ calls[c].pc = "c_agent"
  /\ calls'[c].pc = "c_log"

\* a run of the scheduler updates an agent in this step
C19_RunUpdates ==
  \E r \in DOMAIN calls :
    calls[r].kind = "orphan" /\ calls[r].pc = "s_update" /\ calls'[r].pc # "s_update"

\* C19: a check that reads an UNCLAIMED subject whose deadline has passed
\* answers eligible false, reason UNCLAIMED and daysRemaining 0; a check
\* answers ORPHANED only if the subject it read was ORPHANED, and a subject
\* becomes ORPHANED only by a scheduler run's update of an UNCLAIMED subject
\* past its deadline; the answer is what was read.
C19_UnclaimedUntilRun ==
  [][/\ \A c \in DOMAIN calls :
          /\ C19_ReadsAgent(c) =>
                LET a == calls'[c].found
                IN /\ a = AgentOfWallet(calls[c].wallet)
                   /\ (agents[a].claimStatus = "UNCLAIMED" /\ a \in pastDeadline) =>
                        /\ calls'[c].resp = "UNCLAIMED"
                        /\ calls'[c].daysRemaining = 0
                   /\ calls'[c].resp = "ORPHANED" <=> agents[a].claimStatus = "ORPHANED"
          /\ (calls[c].kind = "check" /\ calls[c].pc = "c_log" /\ calls'[c].pc = "done") =>
                /\ calls'[c].resp = calls[c].resp
                /\ calls'[c].daysRemaining = calls[c].daysRemaining
     /\ \A a \in DOMAIN agents :
          (agents[a].claimStatus # "ORPHANED" /\ agents'[a].claimStatus = "ORPHANED") =>
            /\ C19_RunUpdates
            /\ agents[a].claimStatus = "UNCLAIMED"
            /\ a \in pastDeadline]_vars

C19_Witness ==
  \E c \in DOMAIN calls :
    /\ calls[c].kind = "check"
    /\ calls[c].pc = "done"
    /\ calls[c].resp = "UNCLAIMED"
    /\ calls[c].daysRemaining = 0
    /\ agents[calls[c].found].claimStatus = "UNCLAIMED"
    /\ calls[c].found \in pastDeadline

\* the successful claims so far
SuccessfulClaims ==
  LET RECURSIVE Sum(_)
      Sum(S) == IF S = {} THEN 0
                ELSE LET a == CHOOSE x \in S : TRUE IN claimCount[a] + Sum(S \ {a})
  IN Sum(DOMAIN claimCount)

\* C20: the rank computed for a successful claim is the number of successful
\* claims so far, this one included
C20_NthClaimGetsRankN ==
  \A c \in DOMAIN calls :
    (calls[c].kind = "verify" /\ calls[c].pc \in {"v_rank", "v_del"}) =>
      calls[c].found = SuccessfulClaims

OptOutCalls == {c \in DOMAIN calls : calls[c].kind = "optout"}

\* C21: the documents of wallet_opt_outs only grow in number and there is at
\* most one per wallet: no step removes a document, and opt-out calls racing
\* for one wallet with the same valid nonce leave exactly one document.
C21_OptOutRecordsGrowUnique ==
  /\ [](\A w \in Wallets : optOuts[w] <= 1)
  /\ [][\A w \in Wallets : optOuts'[w] >= optOuts[w]]_vars
  /\ [](\A c \in OptOutCalls :
          calls[c].pc = "o_del" \/ calls[c].resp \in {"OK", "ERROR_500"}
            => optOuts[calls[c].wallet] = 1)

\* two calls with the same nonce both passed the signature check: one has
\* inserted the document, the insert of the other was refused
C21_Witness ==
  \E c, d \in OptOutCalls :
    /\ c # d
    /\ calls[c].wallet = calls[d].wallet
    /\ calls[c].nonce = calls[d].nonce
    /\ calls[c].pc = "o_del"
    /\ calls[d].resp = "ERROR_500"
    /\ optOuts[calls[c].wallet] = 1

\* Opting out after the two schedulers have written their records for the
\* wallet's subject: one request or run at a time.
PurgeCallIds == {1}

InitPurge == InitWith(NotifyAgentIds, PurgeCallIds, Nonces)

NextPurge ==
  \/ \E c \in PurgeCallIds : Retire(c)
  \/ \E w \in NotifyAgentIds : CreateNextAgent(w)
  \/ \E a \in NotifyAgentIds : DeadlinePasses(a)
  \/ \E c \in PurgeCallIds, u \in ExtUsers, a \in NotifyAgentIds : WatchArrive(c, u, a)
  \/ \E c \in PurgeCallIds : WatchUpsert(c)
  \/ \E c \in PurgeCallIds : OrphanStart(c)
  \/ \E c \in PurgeCallIds : OrphanUpdate(c)
  \/ \E c \in PurgeCallIds : OrphanLog(c)
  \/ \E c \in PurgeCallIds : OrphanWatchers(c)
  \/ \E c \in PurgeCallIds : OrphanNotify(c)
  \/ \E c \in PurgeCallIds : OrphanFlag(c)
  \/ \E c \in PurgeCallIds : NotifyStart(c)
  \/ \E c \in PurgeCallIds : NotifyAgent(c)
  \/ \E c \in PurgeCallIds, o \in Outcomes : NotifySend(c, o)
  \/ \E c \in PurgeCallIds : NotifyInsert(c)
  \/ \E c \in PurgeCallIds : NotifyRecordFailure(c)
  \/ \E c \in PurgeCallIds, w \in NotifyAgentIds : OptNonceArrive(c, w)
  \/ \E c \in PurgeCallIds : OptNonceAgent(c)
  \/ \E c \in PurgeCallIds : OptNonceSet(c)
  \/ \E c \in PurgeCallIds, n \in OptOutNonceSet : OwnerOptOutArrive(c, n)
  \/ \E c \in PurgeCallIds : OptOutStep(c)

SpecPurge == InitPurge /\ [][NextPurge]_vars

\* the documents of the collections kept here that name agent a
RecordsOf(a) ==
  [agent |-> IF agents[a].exists THEN 1 ELSE 0,
   watchlist |-> Cardinality({x \in watchlist : x.agentId = a}),
   watcherNotifs |-> Cardinality({x \in DOMAIN watcherNotifs : x[2] = a /\ watcherNotifs[x] > 0}),
   deliveryRecords |-> Cardinality({t \in Templates : notifSent[<<a, t>>] > 0}) + notifFailed[a]]

NoRecords ==
  [agent |-> 0, watchlist |-> 0, watcherNotifs |-> 0, deliveryRecords |-> 0]

\* C22: once an opt-out that found a subject has answered success, neither
\* the subject nor any watchlist entry or notification record of it (watcher
\* notification or delivery record) is in the store.
C22_NothingOfSubjectRemains ==
  \A c \in OptOutCalls :
    (calls[c].resp = "OK" /\ calls[c].found # 0) => RecordsOf(calls[c].found) = NoRecords

\* ------------------------------------------------- cost estimates
\* estimateBatchCost(count) is called and returns
EstimateCall(c, count) ==
  /\ FreeSlot(c)
  /\ \E cost \in estimateBatchCost(count) :
       calls' = [calls EXCEPT ![c] =
         [IdleCall EXCEPT !.kind = "estimate", !.pc = "done", !.resp = "OK", !.cost = cost]]
  /\ UNCHANGED <<sideVars, dbVars, cacheVars, pastDeadline, nextNonce, histVars>>

Counts == 0..MaxCount

InitEstimate == InitWith({}, {1}, {})

NextEstimate ==
  \/ \E c \in {1} : Retire(c)
  \/ \E c \in {1}, count \in Counts : EstimateCall(c, count)

SpecEstimate == InitEstimate /\ [][NextEstimate]_vars

Estimates == {calls[c].cost : c \in {d \in DOMAIN calls : calls[d].kind = "estimate"}}

Abs(x) == IF x < 0 THEN 0 - x ELSE x

\* C23 as stated: the lamports are count times 10,000, the estimate for 0 is
\* zero in lamports, SOL and USD, and the estimate for twice the count is
\* twice the estimate, in lamports, SOL and USD.
C23_DoubleCountDoubleCost ==
  \A cost \in Estimates :
    /\ cost.totalLamports = cost.count * 10000
    /\ cost.count = 0 => (cost.totalLamports = 0 /\ cost.totalSol = 0 /\ cost.totalUsd = 0)
    /\ \A twice \in estimateBatchCost(2 * cost.count) :
         /\ twice.totalLamports = 2 * cost.totalLamports
         /\ twice.totalSol = 2 * cost.totalSol
         /\ twice.totalUsd = 2 * cost.totalUsd

\* C23 amended: the lamports are count times 10,000, the estimate for 0 is
\* zero in lamports, SOL and USD, and the estimate for twice the count is
\* twice the estimate in lamports and in SOL; in USD, rounded to the cent, it
\* is within one cent of twice the estimate.
C23_LamportsScaleLinearly ==
  \A cost \in Estimates :
    /\ cost.totalLamports = cost.count * 10000
    /\ cost.count = 0 => (cost.totalLamports = 0 /\ cost.totalSol = 0 /\ cost.totalUsd = 0)
    /\ \A twice \in estimateBatchCost(2 * cost.count) :
         /\ twice.totalLamports = 2 * cost.totalLamports
         /\ twice.totalSol = 2 * cost.totalSol
         /\ Abs(twice.totalUsd - 2 * cost.totalUsd) <= 1

\* the estimate for 2 memos is 20,000 lamports and 0.00 USD, while the one
\* for 4 memos is 40,000 lamports and 0.01 USD
C23_Witness ==
  \E cost \in Estimates :
    /\ cost.count = 2 /\ cost.totalLamports = 20000 /\ cost.totalUsd = 0
    /\ \E twice \in estimateBatchCost(4) :
         twice.totalLamports = 40000 /\ twice.totalUsd = 1

\* ------------------------------------------------------- message texts
\* generateClaimMessage or generateOptOutMessage is called and returns
BuildMessage(c, args) ==
  /\ FreeSlot(c)
  /\ calls' = [calls EXCEPT ![c] =
       [IdleCall EXCEPT !.kind = "message", !.pc = "done", !.resp = "OK",
                        !.args = args, !.text = TextOf(args)]]
  /\ UNCHANGED <<sideVars, dbVars, cacheVars, pastDeadline, nextNonce, histVars>>

InitMessage == InitWith({}, {1}, {})

NextMessage ==
  \/ \E c \in {1} : Retire(c)
  \/ \E c \in {1}, args \in ClaimInputs \cup OptOutInputs : BuildMessage(c, args)

SpecMessage == InitMessage /\ [][NextMessage]_vars

RECURSIVE Split(_, _)
\* text.split(ch) for a single character ch
Split(text, ch) ==
  IF \A i \in DOMAIN text : text[i] # ch THEN <<text>>
  ELSE LET k == CHOOSE i \in DOMAIN text :
                  text[i] = ch /\ \A j \in 1..(i - 1) : text[j] # ch
       IN <<SubSeq(text, 1, k - 1)>> \o Split(SubSeq(text, k + 1, Len(text)), ch)

MessageCalls == {c \in DOMAIN calls : calls[c].kind = "message"}

\* C24: the text built from a tuple of arguments is the same whenever it is
\* built; a claim text carries the subject id and the wallet on its first
\* line, has an empty second line, then the nonce line, the timestamp line
\* and the domain line; an opt-out text carries its wallet, nonce and
\* timestamp likewise; the text of every other tuple, claim or opt-out, is
\* another text.
C24_TextsTellTuplesApart ==
  \A c \in MessageCalls :
    LET args == calls[c].args
        lines == Split(calls[c].text, "nl")
    IN /\ calls[c].text = TextOf(args)
       /\ Len(args) = 4 =>
            /\ lines = << CLAIM_PREFIX \o args[1] \o FOR_WALLET \o args[2], <<>>,
                          NONCE_LABEL \o args[3], TIMESTAMP_LABEL \o args[4], DOMAIN_LINE >>
       /\ Len(args) = 3 =>
            /\ Len(lines) = 7
            /\ lines[1] = OPT_OUT_PREFIX \o args[1]
            /\ lines[5] = NONCE_LABEL \o args[2]
            /\ lines[6] = TIMESTAMP_LABEL \o args[3]
            /\ lines[7] = DOMAIN_LINE
       /\ \A other \in (ClaimInputs \cup OptOutInputs) \ {args} :
            TextOf(other) # calls[c].text

\* a claim text was built for a wallet whose address is the beginning of
\* another wallet's address
C24_Witness ==
  \E c \in MessageCalls :
    /\ Len(calls[c].args) = 4
    /\ calls[c].args[2] = <<"a">>
    /\ <<"a", "2">> \in WalletTexts
    /\ Split(calls[c].text, "nl")[1] =
         CLAIM_PREFIX \o calls[c].args[1] \o FOR_WALLET \o <<"a">>

\* A claim and the scheduler's runs contending for one subject whose deadline
\* passes while its nonce is live, with watchers registered.
ContestAgentIds == {1}

InitContest == InitWith(ContestAgentIds, CallIds, Nonces)

NextContest ==
  \/ \E c \in CallIds : Retire(c)
  \/ \E w \in ContestAgentIds : CreateNextAgent(w)
  \/ \E a \in ContestAgentIds : DeadlinePasses(a)
  \/ \E c \in CallIds, a \in ContestAgentIds : NonceArrive(c, a, a)
  \/ \E c \in CallIds : NonceSet(c)
  \/ \E c \in CallIds, n \in ClaimNonceSet : OwnerVerifyArrive(c, n)
  \/ \E c \in CallIds : VerifyStep(c)
  \/ \E c \in CallIds, a \in ContestAgentIds : WatchArrive(c, 1, a)
  \/ \E c \in CallIds : WatchUpsert(c)
  \/ \E c \in CallIds : OrphanStart(c)
  \/ \E c \in CallIds : OrphanUpdate(c)
  \/ \E c \in CallIds : OrphanLog(c)
  \/ \E c \in CallIds : OrphanWatchers(c)
  \/ \E c \in CallIds : OrphanNotify(c)
  \/ \E c \in CallIds : OrphanFlag(c)

SpecContest == InitContest /\ [][NextContest]_vars

\* the UNCLAIMED -> ORPHANED transitions of agent a so far: the logged ones
\* and those whose log entry is about to be written
OrphanTransitions(a) ==
  orphanLog[a]
    + Cardinality({c \in OrphanCalls : calls[c].pc = "s_log" /\ Head(calls[c].queue) = a})

C25_State ==
  \A a \in DOMAIN agents :
    /\ ~(agents[a].claimedAt /\ agents[a].orphanedAt)
    /\ claimCount[a] + OrphanTransitions(a) <= 1
    /\ agents[a].claimStatus = "CLAIMED" <=> claimCount[a] = 1
    /\ agents[a].claimStatus = "ORPHANED" <=> OrphanTransitions(a) = 1
    /\ (\E k \in consumed : k[1] = a) => agents[a].claimStatus = "CLAIMED"
    /\ \A x \in DOMAIN watcherNotifs :
         (x[2] = a /\ watcherNotifs[x] > 0) =>
           (agents[a].claimStatus = "ORPHANED" /\ orphanLog[a] = 1)

\* the conditional update of the request or run of slot c is made in this step
C25_Updates(c) ==
  \/ calls[c].kind = "verify" /\ calls[c].pc = "v_update" /\ calls'[c].pc # "v_update"
  \/ calls[c].kind = "orphan" /\ calls[c].pc = "s_update" /\ calls'[c] # calls[c]

C25_Target(c) == IF calls[c].kind = "verify" THEN calls[c].agentId ELSE Head(calls[c].queue)

C25_Step ==
  \A c \in DOMAIN calls :
    C25_Updates(c) =>
      LET a == C25_Target(c)
          won == IF calls[c].kind = "verify" THEN calls'[c].pc = "v_user"
                 ELSE calls'[c].pc = "s_log"
      IN /\ won <=> agents[a].claimStatus = "UNCLAIMED"
         /\ won => agents'[a].claimStatus =
                     (IF calls[c].kind = "verify" THEN "CLAIMED" ELSE "ORPHANED")
         /\ ~won => /\ agents' = agents
                    /\ calls'[c].pc \in {"v_conflict", "s_update", "done"}

\* C25: of the conditional updates a claim and the scheduler's runs make on
\* one UNCLAIMED subject exactly the first succeeds: the subject becomes
\* CLAIMED or ORPHANED, never has both claimedAt and orphanedAt, and only the
\* operation whose update succeeded goes on to write its audit entry and its
\* notifications.
C25_OneTransitionWins == []C25_State /\ [][C25_Step]_vars

\* a claim that arrived while the subject was UNCLAIMED lost to a run of the
\* scheduler, which wrote its audit entry and notified the watcher
C25_Witness ==
  \E c \in VerifyCalls :
    /\ calls[c].armed /\ calls[c].resp = "ALREADY_CLAIMED"
    /\ agents[calls[c].agentId].claimStatus = "ORPHANED"
    /\ agents[calls[c].agentId].orphanedAt /\ ~agents[calls[c].agentId].claimedAt
    /\ orphanLog[calls[c].agentId] = 1
    /\ \E x \in DOMAIN watcherNotifs : x[2] = calls[c].agentId /\ watcherNotifs[x] = 1
    /\ \A k \in consumed : k[1] # calls[c].agentId

\* Watchers of one subject and the scheduler's runs, which may lose a
\* notification write or be terminated; a run is started again and again and
\* every request and run that is not terminated takes its next step.
WatchUsers == {1}

NextWatched ==
  \/ \E c \in CallIds : Retire(c)
  \/ \E w \in ContestAgentIds : CreateNextAgent(w)
  \/ \E a \in ContestAgentIds : DeadlinePasses(a)
  \/ \E c \in CallIds, u \in WatchUsers, a \in ContestAgentIds : WatchArrive(c, u, a)
  \/ \E c \in CallIds : WatchUpsert(c)
  \/ \E c \in CallIds : OrphanStart(c)
  \/ \E c \in CallIds : OrphanUpdate(c)
  \/ \E c \in CallIds : OrphanLog(c)
  \/ \E c \in CallIds : OrphanWatchers(c)
  \/ \E c \in CallIds : OrphanNotify(c)
  \/ \E c \in CallIds : OrphanNotifyThrows(c)
  \/ \E c \in CallIds : OrphanFlag(c)
  \/ \E c \in CallIds : OrphanKilled(c)

\* the steps a run takes when no write fails
RunStep(c) ==
  \/ OrphanUpdate(c) \/ OrphanLog(c) \/ OrphanWatchers(c) \/ OrphanNotify(c) \/ OrphanFlag(c)

SpecWatched ==
  /\ InitContest
  /\ [][NextWatched]_vars
  /\ WF_vars(\E c \in CallIds : Retire(c))
  /\ WF_vars(\E c \in CallIds : WatchUpsert(c))
  /\ WF_vars(\E c \in CallIds : OrphanStart(c))
  /\ WF_vars(\E c \in CallIds : RunStep(c))

Watching(u, a) == \E x \in watchlist : x.userId = u /\ x.agentId = a

WatcherTold(u, a) ==
  /\ \E x \in watchlist : x.userId = u /\ x.agentId = a /\ x.notified
  /\ watcherNotifs[<<u, a>>] > 0

\* C26: whenever a user is on the watchlist of a subject that is ORPHANED,
\* the user's entry is eventually flagged notified and a notification record
\* exists for the user and the subject.
C26_WatchersEventuallyTold ==
  \A u \in WatchUsers, a \in ContestAgentIds :
    (Watching(u, a) /\ agents[a].claimStatus = "ORPHANED") ~> WatcherTold(u, a)

NonceCalls == {c \in DOMAIN calls : calls[c].kind = "nonce"}

\* the request of slot c writes its nonce to the cache in this step
C27_Writes(c) ==
  /\ calls[c].kind = "nonce" /\ calls[c].pc = "n_set"
  /\ calls'[c].pc = "done" /\ calls'[c].resp = "OK"

\* a verify request arrives at slot c and reads its pair's nonce in this step
C27_Reads(c) == calls[c].kind = "idle" /\ calls'[c].kind = "verify"

\* C27: a nonce written for a pair replaces the pair's stored nonce and leaves
\* the nonces of every other pair as they are, so that the pair's stored nonce
\* is the last one written; a verify request that presents another nonce
\* while the pair has a stored nonce is answered NonceMismatch.
C27_LastWrittenNonceOnly ==
  [][\A c \in DOMAIN calls :
       /\ C27_Writes(c) =>
            LET key == <<calls[c].agentId, calls[c].wallet>>
            IN /\ claimNonces'[key].nonce = calls[c].nonce
               /\ claimNonces'[key].message = issued[calls[c].nonce]
               /\ \A k \in DOMAIN claimNonces \ {key} : claimNonces'[k] = claimNonces[k]
       /\ C27_Reads(c) =>
            LET r == calls'[c]
                entry == claimNonces[<<r.agentId, r.wallet>>]
            IN (Live(entry) /\ entry.nonce # r.nonce) =>
                 (r.pc = "done" /\ r.resp = "NONCE_MISMATCH")]_vars

\* two nonces were issued concurrently for one pair and written in the
\* opposite order; the owner's claim with the one issued last, which was
\* written first, is answered NonceMismatch while the other pair's nonce
\* store is as it was
C27_Witness ==
  \E c \in VerifyCalls :
    LET r == calls[c]
        stored == claimNonces[<<r.agentId, r.wallet>>]
    IN /\ r.resp = "NONCE_MISMATCH"
       /\ issued[r.nonce].agentId = r.agentId /\ issued[r.nonce].wallet = r.wallet
       /\ r.sig = OwnerSignature(r.nonce)
       /\ Live(stored) /\ stored.nonce < r.nonce
       /\ issued[stored.nonce].agentId = r.agentId /\ issued[stored.nonce].wallet = r.wallet

\* Claims retried with the nonce their pair has in store: one subject, one
\* nonce, signatures good and bad, failed attempts counted.
RetryNonces == {1}

InitRetry ==
  InitStore(ContestAgentIds, CallIds, RetryNonces) /\ lastRun = RunsUntracked
    /\ deliveries = DeliveriesUntracked /\ failCount = NoFailures(ContestAgentIds)
    /\ expiry = ExpiryUntracked /\ klikBalance = BalancesUntracked

\* what is sent with nonce n: a malformed signature, the owner's signature,
\* another key's signature over the same text
RetrySignatures(n) ==
  {BadSig, OwnerSignature(n), [signer |-> NumWallets, msg |-> issued[n]]}

\* a verify request for the pair of nonce n, made while n is the pair's stored
\* nonce
StoredNonceVerifyArrive(c, n, sig) ==
  /\ claimNonces[<<issued[n].agentId, issued[n].wallet>>].nonce = n
  /\ VerifyArrive(c, issued[n].wallet, issued[n].agentId, sig, n)

NextRetry ==
  \/ \E c \in CallIds : Retire(c)
  \/ \E w \in ContestAgentIds : CreateNextAgent(w)
  \/ \E k \in ContestAgentIds \X ContestAgentIds : ClaimNonceExpires(k)
  \/ \E c \in CallIds, a \in ContestAgentIds : NonceArrive(c, a, a)
  \/ \E c \in CallIds : NonceSet(c)
  \/ \E c \in CallIds, n \in ClaimNonceSet :
       \E sig \in RetrySignatures(n) : StoredNonceVerifyArrive(c, n, sig)
  \/ \E c \in CallIds : VerifyStep(c)

SpecRetry == InitRetry /\ [][NextRetry]_vars

\* the verify request of slot c is answered with code in this step
C28_Answers(c, code) ==
  /\ calls'[c].kind = "verify"
  /\ calls[c].pc # "done"
  /\ calls'[c].pc = "done" /\ calls'[c].resp = code

C28_Step ==
  \A c \in DOMAIN calls :
    LET key == <<calls'[c].agentId, calls'[c].wallet>>
    IN /\ C28_Answers(c, "INVALID_SIGNATURE") =>
            /\ claimNonces' = claimNonces
            /\ claimNonces[key].nonce = calls'[c].nonce
       /\ (C28_Answers(c, "OK") \/ C28_Answers(c, "ALREADY_CLAIMED")) =>
            claimNonces'[key] = NoEntry

C28_State ==
  \A c \in VerifyCalls :
    /\ (calls[c].armed /\ calls[c].pc = "done") => calls[c].resp \in {"OK", "ALREADY_CLAIMED"}
    /\ calls[c].resp = "ALREADY_CLAIMED" => claimCount[calls[c].agentId] = 1
    /\ calls[c].resp = "OK" => agents[calls[c].agentId].claimedBy = calls[c].wallet

NextIssue ==
  \/ \E c \in CallIds : Retire(c)
  \/ \E w \in Wallets : CreateAgent(w)
  \/ \E c \in CallIds, w \in Wallets, a \in AgentIds : NonceArrive(c, w, a)
  \/ \E c \in CallIds : CacheOffline(c)
  \/ \E c \in CallIds : NonceSet(c)
  \/ \E c \in CallIds : NonceSetThrows(c)

SpecIssue == Init /\ [][NextIssue]_vars

\* C29: a nonce request that is answered with a nonce has written that nonce,
\* with its message and an expiry of 300 seconds, under the key of its subject
\* and wallet; a request that finds the cache not ready is answered
\* CACHE_UNAVAILABLE, and that answer and every other error come without a
\* nonce and without a write.
C29_ReturnedNonceIsStored ==
  \A c \in NonceCalls :
    LET r == calls[c]
    IN /\ r.returned # 0 =>
            /\ r.pc = "done" /\ r.resp = "OK" /\ r.returned = r.nonce
            /\ claimNonces[<<r.agentId, r.wallet>>] =
                 [nonce |-> r.returned, timestamp |-> issued[r.returned].timestamp,
                  message |-> issued[r.returned], ttl |-> 300]
       /\ (r.pc = "done" /\ r.resp = "OK") => r.returned # 0
       /\ (r.pc = "done" /\ r.nonce # 0 /\ ~r.ready) =>
            /\ r.resp = "CACHE_UNAVAILABLE" /\ r.returned = 0
            /\ claimNonces[<<r.agentId, r.wallet>>].nonce # r.nonce

\* a nonce was made for a request and the cache was offline when it was to be
\* stored
C29_Witness ==
  \E c \in NonceCalls :
    /\ calls[c].resp = "CACHE_UNAVAILABLE"
    /\ calls[c].nonce # 0 /\ issued[calls[c].nonce] = calls[c].msg
    /\ calls[c].returned = 0
    /\ claimNonces[<<calls[c].agentId, calls[c].wallet>>] = NoEntry

\* Opt-outs whose storage calls may fail, next to the creation of agents.
NextOptOutFail ==
  \/ \E c \in CallIds : Retire(c)
  \/ \E w \in Wallets : CreateAgent(w)
  \/ \E c \in CallIds, w \in Wallets : OptNonceArrive(c, w)
  \/ \E c \in CallIds : OptNonceAgent(c)
  \/ \E c \in CallIds : OptNonceSet(c)
  \/ \E c \in CallIds, n \in OptOutNonceSet : OwnerOptOutArrive(c, n)
  \/ \E c \in CallIds : OptOutStep(c)
  \/ \E c \in CallIds : OptOutFails(c)

SpecOptOutFail == Init /\ [][NextOptOutFail]_vars

\* the agent an opt-out call found for its wallet is gone from storage
FoundIsDeleted(c) == calls[c].found # 0 => ~agents[calls[c].found].exists

\* an opt-out call past the deletes of the agent it found
C30_State ==
  \A c \in OptOutCalls :
    (calls[c].pc \in {"o_insert", "o_del"} \/ calls[c].resp = "OK") => FoundIsDeleted(c)

\* a step that adds an opt-out document for a wallet is the insert of an
\* opt-out call for that wallet whose agent is deleted before and after it
C30_Step ==
  \A w \in Wallets :
    optOuts'[w] > optOuts[w] =>
      \E c \in OptOutCalls :
        /\ calls[c].wallet = w /\ calls[c].pc = "o_insert"
        /\ calls'[c].pc = "o_del"
        /\ FoundIsDeleted(c)
        /\ calls'[c].found = calls[c].found
        /\ calls[c].found # 0 => ~agents'[calls[c].found].exists

\* a deleted agent does not come back, so what held at the insert holds after
\* it, whatever fails later
C30_Gone ==
  \A a \in AgentIds : (nextAgentId > a /\ ~agents[a].exists) => ~agents'[a].exists

\* C30: an opt-out document for a wallet is inserted only by an opt-out call
\* that has already deleted the agent it found for that wallet, also when a
\* storage call of that or of another opt-out fails part-way, and that agent
\* stays deleted from then on.
C30_DeleteBeforeOptOutRecord == []C30_State /\ [][C30_Step /\ C30_Gone]_vars

\* an opt-out found an agent, deleted it and inserted the opt-out document
C30_Witness ==
  \E c \in OptOutCalls :
    /\ calls[c].pc = "o_del"
    /\ calls[c].found # 0
    /\ ~agents[calls[c].found].exists
    /\ optOuts[calls[c].wallet] = 1

\* ------------------------------ the abuse counters, one cache call per step
\* what the validation at the head of a route finds wrong with a request
ValidationErrors == {"MISSING_FIELDS", "INVALID_WALLET", "INVALID_AGENT_ID"}

\* A request of wallet w reaches detectClaimAbuse; malformed is the validation
\* error the route will find, if any, and fails tells whether the signature
\* check of a well-formed request will fail.
GuardArrive(c, w, fails, malformed) ==
  /\ FreeSlot(c)
  /\ malformed \in ValidationErrors => ~fails
  /\ calls' = [calls EXCEPT ![c] =
       [IdleCall EXCEPT !.kind = "guard", !.pc = "g_incr", !.wallet = w, !.fails = fails,
                        !.malformed = malformed]]
  /\ UNCHANGED <<sideVars, dbVars, cacheVars, pastDeadline, nextNonce, histVars>>

\* next(): the route runs; it answers 400 to a malformed request first of
\* all, and calls recordFailedClaimAttempt when the signature check fails
GuardNext(r) ==
  IF r.malformed \in ValidationErrors THEN [r EXCEPT !.pc = "done", !.resp = r.malformed]
  ELSE IF r.fails THEN [r EXCEPT !.pc = "r_incr"]
  ELSE [r EXCEPT !.pc = "done", !.resp = "OK"]

\* if (ipCount > 100) 429 ABUSE_IP_BLOCKED, else on to the wallet's counter
GuardIpCap(r) ==
  IF IpBlocked(r.count) THEN [r EXCEPT !.pc = "done", !.resp = "ABUSE_IP_BLOCKED"]
  ELSE [r EXCEPT !.pc = "g_get"]

\* const ipCount = await redis.incr(ipKey)
GuardIncr(c) ==
  /\ At(c, "g_incr")
  /\ ipCount' = Min(ipCount + 1, IpLimit + 1)
  /\ LET r == [calls[c] EXCEPT !.count = ipCount + 1]
     IN calls' = [calls EXCEPT ![c] =
          IF r.count = 1 THEN [r EXCEPT !.pc = "g_expire"] ELSE GuardIpCap(r)]
  /\ UNCHANGED <<orphanVars, notifyVars, payoutVars, failCount, expiry, dbVars, cacheVars, pastDeadline,
                 nextNonce, histVars>>

\* if (ipCount === 1) await redis.expire(ipKey, 3600)
GuardExpire(c) ==
  /\ At(c, "g_expire")
  /\ expiry' = [expiry EXCEPT ![IpKey] = (ipCount > 0)]
  /\ calls' = [calls EXCEPT ![c] = GuardIpCap(calls[c])]
  /\ UNCHANGED <<orphanVars, notifyVars, payoutVars, ipCount, failCount, dbVars, cacheVars, pastDeadline,
                 nextNonce, histVars>>

\* redis.get(walletFailKey) and the wallet block, then next()
GuardGet(c) ==
  /\ At(c, "g_get")
  /\ calls' = [calls EXCEPT ![c] =
       IF WalletBlocked(failCount[calls[c].wallet])
         THEN Done(c, "ABUSE_WALLET_BLOCKED")
       ELSE GuardNext(calls[c])]
  /\ UNCHANGED <<sideVars, dbVars, cacheVars, pastDeadline, nextNonce, histVars>>

\* a cache call of the middleware rejects: catch (err) { next() }
GuardThrows(c) ==
  /\ Quiet
  /\ calls[c].pc \in {"g_incr", "g_expire", "g_get"}
  /\ calls' = [calls EXCEPT ![c] = GuardNext(calls[c])]
  /\ UNCHANGED <<sideVars, dbVars, cacheVars, pastDeadline, nextNonce, histVars>>

\* recordFailedClaimAttempt: const count = await redis.incr(key)
RecordIncr(c) ==
  /\ At(c, "r_incr")
  /\ LET w == calls[c].wallet
         r == [calls[c] EXCEPT !.count = failCount[w] + 1]
     IN /\ failCount' = [failCount EXCEPT ![w] = Min(@ + 1, WALLET_FAIL_LIMIT + 1)]
        /\ calls' = [calls EXCEPT ![c] =
             IF r.count = 1 THEN [r EXCEPT !.pc = "r_expire"]
             ELSE [r EXCEPT !.pc = "done", !.resp = "INVALID_SIGNATURE"]]
  /\ UNCHANGED <<orphanVars, notifyVars, payoutVars, ipCount, expiry, dbVars, cacheVars, pastDeadline,
                 nextNonce, histVars>>

\* recordFailedClaimAttempt: if (count === 1) await redis.expire(key, 3600)
RecordExpire(c) ==
  /\ At(c, "r_expire")
  /\ expiry' = [expiry EXCEPT ![calls[c].wallet] = (failCount[calls[c].wallet] > 0)]
  /\ calls' = [calls EXCEPT ![c] = Done(c, "INVALID_SIGNATURE")]
  /\ UNCHANGED <<orphanVars, notifyVars, payoutVars, ipCount, failCount, dbVars, cacheVars, pastDeadline,
                 nextNonce, histVars>>

\* a cache call of recordFailedClaimAttempt rejects: its catch logs the error
RecordThrows(c) ==
  /\ Quiet
  /\ calls[c].pc \in {"r_incr", "r_expire"}
  /\ calls' = [calls EXCEPT ![c] = Done(c, "INVALID_SIGNATURE")]
  /\ UNCHANGED <<sideVars, dbVars, cacheVars, pastDeadline, nextNonce, histVars>>

\* the value of the counter under key k
CounterOf(k) == IF k = IpKey THEN ipCount ELSE failCount[k]

\* the TTL of a counter's key runs out: the key is removed
CounterKeyExpires(k) ==
  /\ Quiet
  /\ expiry[k]
  /\ expiry' = [expiry EXCEPT ![k] = FALSE]
  /\ IF k = IpKey THEN ipCount' = 0 /\ UNCHANGED failCount
     ELSE failCount' = [failCount EXCEPT ![k] = 0] /\ UNCHANGED ipCount
  /\ UNCHANGED <<orphanVars, notifyVars, payoutVars, dbVars, cacheVars, pastDeadline, nextNonce, calls,
                 histVars>>

\* Requests of one IP for one wallet at the abuse counters, two in flight.
CounterWallets == {1}
CounterKeys == {IpKey} \cup CounterWallets

InitCounters ==
  InitStore({}, CallIds, {}) /\ lastRun = RunsUntracked
    /\ deliveries = DeliveriesUntracked /\ failCount = NoFailures(CounterWallets)
    /\ expiry = NoExpiry(CounterKeys) /\ klikBalance = BalancesUntracked

NextCounters ==
  \/ \E c \in CallIds : Retire(c)
  \/ \E c \in CallIds, w \in CounterWallets, fails \in BOOLEAN :
       \E malformed \in ValidationErrors \cup {"none"} : GuardArrive(c, w, fails, malformed)
  \/ \E c \in CallIds : GuardIncr(c)
  \/ \E c \in CallIds : GuardExpire(c)
  \/ \E c \in CallIds : GuardGet(c)
  \/ \E c \in CallIds : GuardThrows(c)
  \/ \E c \in CallIds : RecordIncr(c)
  \/ \E c \in CallIds : RecordExpire(c)
  \/ \E c \in CallIds : RecordThrows(c)
  \/ \E k \in CounterKeys : CounterKeyExpires(k)

SpecCounters == InitCounters /\ [][NextCounters]_vars

\* requests that have incremented the counter under k from zero and have yet
\* to set its expiry
SettingExpiry(k) ==
  {c \in DOMAIN calls :
     \/ k = IpKey /\ calls[c].pc = "g_expire"
     \/ k # IpKey /\ calls[c].pc = "r_expire" /\ calls[c].wallet = k}

\* C31: an abuse counter with a non-zero value has an expiry, unless the
\* request that made it non-zero is still on its way to set the expiry; in
\* particular no counter is left without an expiry by a request that is over.
C31_CounterHasExpiry ==
  \A k \in CounterKeys :
    (CounterOf(k) > 0 /\ SettingExpiry(k) = {}) => expiry[k]

\* ------------------------------------ notification runs with failing storage
\* the insertOne of the catch branch rejects: nothing around it catches, the
\* rejection leaves processNotifications before the summary is made
NotifyRecordThrows(c) ==
  /\ At(c, "p_failed")
  /\ calls' = [calls EXCEPT ![c] = Done(c, "THROWN")]
  /\ UNCHANGED <<sideVars, dbVars, cacheVars, pastDeadline, nextNonce, histVars>>

\* the find of getSentNotifications rejects: it is awaited outside the try
NotifyReadThrows(c) ==
  /\ At(c, "p_agent")
  /\ calls[c].queue # <<>>
  /\ ~AtCeiling(calls[c].sent)
  /\ calls' = [calls EXCEPT ![c] = Done(c, "THROWN")]
  /\ UNCHANGED <<sideVars, dbVars, cacheVars, pastDeadline, nextNonce, histVars>>

\* One notification run at a time over the subjects of the first days, with
\* dispatches and storage calls that may fail.
BatchCallIds == {1}

InitBatch == InitWith(AgentIds, BatchCallIds, {})

NextBatch ==
  \/ \E c \in BatchCallIds : Retire(c)
  \/ \E w \in AgentIds : CreateEarly(w)
  \/ EarlyDayPasses
  \/ \E c \in BatchCallIds : NotifyStart(c)
  \/ \E c \in BatchCallIds : NotifyAgent(c)
  \/ \E c \in BatchCallIds, o \in Outcomes : NotifySend(c, o)
  \/ \E c \in BatchCallIds : NotifyInsert(c)
  \/ \E c \in BatchCallIds : NotifyInsertThrows(c)
  \/ \E c \in BatchCallIds : NotifyRecordFailure(c)
  \/ \E c \in BatchCallIds : NotifyRecordThrows(c)
  \/ \E c \in BatchCallIds : NotifyReadThrows(c)

SpecBatch == InitBatch /\ [][NextBatch]_vars

BatchRuns == {c \in DOMAIN calls : calls[c].kind = "notify"}

\* C32: a notification run that is over has passed every subject it found,
\* or stopped at its ceiling, and has made its summary, whatever failed for
\* one of its dispatches or for the record of one.
C32_ItemFailureKeepsRun ==
  \A c \in BatchRuns :
    calls[c].pc = "done" =>
      /\ calls[c].resp \in {"OK", "NONE_PENDING"}
      /\ calls[c].queue = <<>> \/ AtCeiling(calls[c].sent)

\* Notification runs in succession: the hourly run starts when no other run
\* is in flight.
NotifyStartAlone(c) ==
  /\ \A d \in DOMAIN calls : calls[d].kind # "notify"
  /\ NotifyStart(c)

NextSuccession ==
  \/ \E c \in NotifyCallIds : Retire(c)
  \/ \E w \in NotifyAgentIds : CreateEarly(w)
  \/ DayPasses
  \/ \E c \in NotifyCallIds : NotifyStartAlone(c)
  \/ \E c \in NotifyCallIds : NotifyAgent(c)
  \/ \E c \in NotifyCallIds, o \in Outcomes : NotifySend(c, o)
  \/ \E c \in NotifyCallIds : NotifyInsert(c)
  \/ \E c \in NotifyCallIds : NotifyRecordFailure(c)

SpecSuccession == InitNotify /\ [][NextSuccession]_vars

\* the run of slot c is through with its current subject
PassedSubject(c) == calls[c].pc \in {"p_agent", "done"}

\* the record written for an attempt has the status of its outcome: a
\* confirmed memo adds a sent record and no failed one, a failed or thrown
\* dispatch adds a failed record and leaves the sent records alone
C33_RecordMatchesOutcome ==
  \A c \in NotifyRuns :
    LET r == calls[c]
        k == <<r.agentId, NOTIFICATION_SCHEDULE[r.idx].template>>
    IN /\ (r.pc = "p_insert" /\ calls'[c].pc # "p_insert" /\ r.outcome = "sent") =>
            /\ notifSent'[k] = notifSent[k] + 1
            /\ notifFailed' = notifFailed
       /\ (r.pc \in {"p_insert", "p_failed"} /\ calls'[c].pc # r.pc /\ r.outcome # "sent") =>
            /\ notifSent' = notifSent
            /\ notifFailed'[r.agentId] = 1

\* what a run tries for a subject: nothing that has a sent record, at most one
\* sent record per template, and, when the run stays below its ceiling, every
\* due template without a sent record, whether an earlier attempt failed or not
C33_RetriesUnsent ==
  \A c \in NotifyRuns :
    LET r == calls[c]
        age == r.now - agents[r.agentId].createdAt
    IN /\ r.tried \cap r.sentTemplates = {}
       /\ \A t \in Templates : notifSent[<<r.agentId, t>>] <= 1
       /\ (PassedSubject(c) /\ r.sent < MaxSends) => r.tried = DueUnsent(age, r.sentTemplates)

C34_RecordedMessageIsDispatched ==
  \A c \in BatchRuns :
    calls[c].pc = "p_insert" => calls[c].messageText = calls[c].memo

\* ------------------------------------- a delivery channel that may not answer
\* sendAndConfirmTransaction never settles: sendClaimMemo awaits it without a
\* timer of its own and processNotifications awaits sendClaimMemo, so nothing
\* of the run is scheduled again
ChannelHangs(c) ==
  /\ At(c, "p_send")
  /\ calls' = [calls EXCEPT ![c] = Goto(c, "p_hung")]
  /\ UNCHANGED <<sideVars, dbVars, cacheVars, pastDeadline, nextNonce, histVars>>

\* the steps of a run and of the channel that are taken when they can be
HangStep ==
  \E c \in BatchCallIds :
    \/ Retire(c)
    \/ NotifyAgent(c)
    \/ \E o \in Outcomes : NotifySend(c, o)
    \/ NotifyInsert(c)
    \/ NotifyRecordFailure(c)

NextHang ==
  \/ \E w \in AgentIds : CreateEarly(w)
  \/ EarlyDayPasses
  \/ \E c \in BatchCallIds : NotifyStart(c)
  \/ \E c \in BatchCallIds : ChannelHangs(c)
  \/ HangStep

SpecHang == InitBatch /\ [][NextHang]_vars /\ WF_vars(HangStep)

\* C35: every notification run that has started comes to its end.
C35_RunTerminates ==
  \A c \in BatchCallIds : (calls[c].kind = "notify") ~> (calls[c].pc = "done")

\* ------------------------------------------ a claim whose enrichment fails
\* an awaited storage or cache call after the findOneAndUpdate rejects: the
\* handler's catch answers 500, the calls after it are not made
EnrichFails(c) ==
  /\ \E l \in {"v_user", "v_insert", "v_link", "v_count", "v_rank", "v_del"} : At(c, l)
  /\ calls' = [calls EXCEPT ![c] = Done(c, "ERROR_500")]
  /\ UNCHANGED <<sideVars, dbVars, cacheVars, pastDeadline, nextNonce, histVars>>

\* the steps of the handler of one request: they are taken in the end, also
\* when the answers of other requests leave in between
EnrichStep(c) == Retire(c) \/ NonceSet(c) \/ VerifyStep(c)

\* the owner presents a nonce issued for the subject, again and again
EnrichRetry ==
  \E c \in CallIds, n \in ClaimNonceSet : OwnerVerifyArrive(c, n)

NextEnrich ==
  \/ \E w \in ContestAgentIds : CreateNextAgent(w)
  \/ \E k \in ContestAgentIds \X ContestAgentIds : ClaimNonceExpires(k)
  \/ \E c \in CallIds, a \in ContestAgentIds : NonceArrive(c, a, a)
  \/ \E c \in CallIds : EnrichFails(c)
  \/ EnrichRetry
  \/ \E c \in CallIds : EnrichStep(c)

SpecEnrich ==
  /\ InitContest
  /\ [][NextEnrich]_vars
  /\ \A c \in CallIds : SF_vars(EnrichStep(c))
  /\ SF_vars(EnrichRetry)

\* C36: a subject that is CLAIMED is linked to a user account in the end, the
\* owner calling verify again as often as it takes.
C36_ClaimedEventuallyLinked ==
  \A a \in ContestAgentIds :
    (agents[a].claimStatus = "CLAIMED") ~> (agents[a].userId # 0)

\* the answers of a request that failed for a reason other than the
\* infrastructure
ReasonCodes ==
  {"NONCE_EXPIRED", "NONCE_MISMATCH", "INVALID_SIGNATURE", "ALREADY_CLAIMED",
   "NOT_CLAIMABLE", "CLAIM_EXPIRED", "AGENT_NOT_FOUND"}

\* C37: a nonce, verify or opt-out request answered with one of the reason
\* codes has appended exactly one audit entry, with its wallet and that code.
C37_FailureIsAudited ==
  \A c \in DOMAIN calls :
    (calls[c].kind \in {"nonce", "verify", "optout"} /\ calls[c].resp \in ReasonCodes) =>
      /\ Len(calls[c].audit) = 1
      /\ calls[c].audit[1].walletAddress = calls[c].wallet
      /\ calls[c].audit[1].reason = calls[c].resp

\* C38: no step of a request that the validation of its route rejects changes
\* an agent, a user, an opt-out record, a nonce, an audit entry or an abuse
\* counter.
C38_RejectedRequestChangesNothing ==
  [][\A c \in DOMAIN calls :
       (calls[c].malformed \in ValidationErrors /\ calls'[c] # calls[c]) =>
         /\ UNCHANGED <<dbVars, cacheVars, abuseVars>>
         /\ calls'[c].audit = <<>>]_vars

\* C39: no step makes a subject CLAIMED once its claimDeadline has passed, not
\* even a verify call that presents a nonce issued before the deadline while
\* the scheduler has yet to run.
C39_NoClaimAfterDeadline ==
  [][\A a \in AgentIds :
       (agents[a].claimStatus # "CLAIMED" /\ agents'[a].claimStatus = "CLAIMED") =>
         a \notin pastDeadline]_vars

\* ------------------------------------------------ POST /api/v1/user/withdraw
\* Amounts of a request are given in halves of a KLIK, so that parseFloat
\* yields values that Math.floor changes.
MIN_WITHDRAWAL == 100
MAX_WITHDRAWAL == 1000000
PayoutUsers == {1}
MaxWithdrawals == 2
Balances == {0, 100, 300}
HalfAmounts == {199, 201, 400, 2 * MAX_WITHDRAWAL + 1}
WalletAddresses == {0, 1, 2, 3}

\* Math.floor(numAmount)
floorAmount(half) == half \div 2

\* new PublicKey(walletAddress) succeeds and the key is on the curve
isOnCurve(walletAddress) == walletAddress \in Wallets

\* req.user.walletAddress, as verifyUserJWT provides it
linkedWallet(u) == u

\* the validation of amount and walletAddress: the answer, or "none"
WithdrawRejects(u, half, walletAddress) ==
  IF half < 2 * MIN_WITHDRAWAL THEN "BELOW_MINIMUM"
  ELSE IF half > 2 * MAX_WITHDRAWAL THEN "ABOVE_MAXIMUM"
  ELSE IF walletAddress = 0 THEN "WALLET_REQUIRED"
  ELSE IF ~isOnCurve(walletAddress) THEN "INVALID_WALLET"
  ELSE IF linkedWallet(u) # walletAddress THEN "WALLET_MISMATCH"
  ELSE "none"

WithdrawArrive(c, u, half, walletAddress) ==
  /\ FreeSlot(c)
  /\ Len(Withdrawal) < MaxWithdrawals
  /\ LET code == WithdrawRejects(u, half, walletAddress)
         r == [IdleCall EXCEPT !.kind = "withdraw", !.user = u, !.wallet = walletAddress,
                               !.floorAmount = floorAmount(half)]
     IN calls' = [calls EXCEPT ![c] =
          IF code # "none" THEN [r EXCEPT !.pc = "done", !.resp = code]
          ELSE [r EXCEPT !.pc = "w_deduct"]]
  /\ UNCHANGED <<sideVars, dbVars, cacheVars, pastDeadline, nextNonce, histVars>>

Settled(c) == [calls[c] EXCEPT !.pc = "done"]

\* User.findOneAndUpdate({_id, klikBalance: {$gte: floorAmount}}, {$inc: -floorAmount})
WithdrawDeduct(c) ==
  /\ At(c, "w_deduct")
  /\ LET r == calls[c]
     IN IF klikBalance[r.user] >= r.floorAmount
          THEN /\ klikBalance' = [klikBalance EXCEPT ![r.user] = @ - r.floorAmount]
               /\ calls' = [calls EXCEPT ![c] = Goto(c, "w_insert")]
          ELSE /\ calls' = [calls EXCEPT ![c] = Done(c, "INSUFFICIENT_BALANCE")]
               /\ UNCHANGED klikBalance
  /\ UNCHANGED <<orphanVars, notifyVars, abuseVars, Withdrawal, dbVars, cacheVars,
                 pastDeadline, nextNonce, histVars>>

\* Withdrawal.insertOne({status: 'pending', ...}); res.json({status: 'pending'});
\* the transfer goes on in the background
WithdrawInsert(c) ==
  /\ At(c, "w_insert")
  /\ LET r == calls[c]
     IN /\ Withdrawal' = Append(Withdrawal,
             [userId |-> r.user, amount |-> r.floorAmount, walletAddress |-> r.wallet,
              status |-> "pending", txSignature |-> 0])
        /\ calls' = [calls EXCEPT ![c] =
             [r EXCEPT !.pc = "b_ata", !.resp = "PENDING",
                       !.withdrawalId = Len(Withdrawal) + 1]]
  /\ UNCHANGED <<orphanVars, notifyVars, abuseVars, klikBalance, dbVars, cacheVars,
                 pastDeadline, nextNonce, histVars>>

\* a store operation of the request throws before the answer: no answer
WithdrawThrows(c) ==
  /\ At(c, "w_deduct") \/ At(c, "w_insert")
  /\ calls' = [calls EXCEPT ![c] = Done(c, "THROWN")]
  /\ UNCHANGED <<sideVars, dbVars, cacheVars, pastDeadline, nextNonce, histVars>>

\* getAssociatedTokenAddress (twice), getAccount (its failure adds the create
\* instruction), getLatestBlockhash: one await after the other
PrepareNext(pc) ==
  CASE pc = "b_ata" -> "b_account"
    [] pc = "b_account" -> "b_blockhash"
    [] pc = "b_blockhash" -> "b_send"

TransferPrepare(c) ==
  /\ \E l \in {"b_ata", "b_account", "b_blockhash"} : At(c, l)
  /\ calls' = [calls EXCEPT ![c] = Goto(c, PrepareNext(calls[c].pc))]
  /\ UNCHANGED <<sideVars, dbVars, cacheVars, pastDeadline, nextNonce, histVars>>

\* connection.sendRawTransaction(...): the transfer is submitted
TransferSend(c) ==
  /\ At(c, "b_send")
  /\ calls' = [calls EXCEPT ![c] =
       [calls[c] EXCEPT !.pc = "b_confirm", !.txSignature = calls[c].withdrawalId]]
  /\ UNCHANGED <<sideVars, dbVars, cacheVars, pastDeadline, nextNonce, histVars>>

\* connection.confirmTransaction(txSignature, 'confirmed')
TransferConfirm(c) ==
  /\ At(c, "b_confirm")
  /\ calls' = [calls EXCEPT ![c] = Goto(c, "b_mark")]
  /\ UNCHANGED <<sideVars, dbVars, cacheVars, pastDeadline, nextNonce, histVars>>

\* Withdrawal.updateOne({_id: withdrawalId}, {$set: {status: 'completed', txSignature}})
TransferMark(c) ==
  /\ At(c, "b_mark")
  /\ Withdrawal' = [Withdrawal EXCEPT ![calls[c].withdrawalId].status = "completed",
                                      ![calls[c].withdrawalId].txSignature = calls[c].txSignature]
  /\ calls' = [calls EXCEPT ![c] = Settled(c)]
  /\ UNCHANGED <<orphanVars, notifyVars, abuseVars, klikBalance, dbVars, cacheVars,
                 pastDeadline, nextNonce, histVars>>

\* the awaits of the try block whose failure enters the catch block: the
\* missing treasury key (thrown before the first await), the address and
\* blockhash lookups, the submission, the confirmation and the update of the
\* withdrawal record
CatchFrom == {"b_ata", "b_blockhash", "b_send", "b_confirm", "b_mark"}

\* an await of the try block throws: catch (err)
TransferThrows(c) ==
  /\ \E l \in CatchFrom : At(c, l)
  /\ calls' = [calls EXCEPT ![c] = Goto(c, "b_refund")]
  /\ UNCHANGED <<sideVars, dbVars, cacheVars, pastDeadline, nextNonce, histVars>>

\* User.updateOne({_id}, {$inc: {klikBalance: floorAmount}})
TransferRefund(c) ==
  /\ At(c, "b_refund")
  /\ klikBalance' = [klikBalance EXCEPT ![calls[c].user] = @ + calls[c].floorAmount]
  /\ calls' = [calls EXCEPT ![c] = Goto(c, "b_failed")]
  /\ UNCHANGED <<orphanVars, notifyVars, abuseVars, Withdrawal, dbVars, cacheVars,
                 pastDeadline, nextNonce, histVars>>

\* Withdrawal.updateOne({_id: withdrawalId}, {$set: {status: 'failed', error}})
TransferFailed(c) ==
  /\ At(c, "b_failed")
  /\ Withdrawal' = [Withdrawal EXCEPT ![calls[c].withdrawalId].status = "failed"]
  /\ calls' = [calls EXCEPT ![c] = Settled(c)]
  /\ UNCHANGED <<orphanVars, notifyVars, abuseVars, klikBalance, dbVars, cacheVars,
                 pastDeadline, nextNonce, histVars>>

\* an update of the catch block throws: the background task ends there
CatchThrows(c) ==
  /\ At(c, "b_refund") \/ At(c, "b_failed")
  /\ calls' = [calls EXCEPT ![c] = Settled(c)]
  /\ UNCHANGED <<sideVars, dbVars, cacheVars, pastDeadline, nextNonce, histVars>>

\* Withdrawals of one user, two at a time, with every await able to fail.
InitPayout ==
  /\ InitStore({}, CallIds, {})
  /\ lastRun = RunsUntracked
  /\ deliveries = DeliveriesUntracked
  /\ failCount = FailuresUntracked
  /\ expiry = ExpiryUntracked
  /\ klikBalance \in [PayoutUsers -> Balances]

NextPayout ==
  \/ \E c \in CallIds : Retire(c)
  \/ \E c \in CallIds, u \in PayoutUsers, half \in HalfAmounts, w \in WalletAddresses :
       WithdrawArrive(c, u, half, w)
  \/ \E c \in CallIds : WithdrawDeduct(c)
  \/ \E c \in CallIds : WithdrawInsert(c)
  \/ \E c \in CallIds : WithdrawThrows(c)
  \/ \E c \in CallIds : TransferPrepare(c)
  \/ \E c \in CallIds : TransferSend(c)
  \/ \E c \in CallIds : TransferConfirm(c)
  \/ \E c \in CallIds : TransferMark(c)
  \/ \E c \in CallIds : TransferThrows(c)
  \/ \E c \in CallIds : TransferRefund(c)
  \/ \E c \in CallIds : TransferFailed(c)
  \/ \E c \in CallIds : CatchThrows(c)

SpecPayout == InitPayout /\ [][NextPayout]_vars

\* C40: a balance grows only by the refund of a withdrawal whose transfer was
\* not submitted: no execution both submits the transfer and refunds the
\* balance, whichever of its steps fails.
C40_SettledExactlyOnce ==
  [][\A c \in DOMAIN calls :
       (calls[c].pc = "b_refund" /\ calls'[c].pc = "b_failed") =>
         calls[c].txSignature = 0]_vars

====
